---- MODULE Spec2Model ----
(***************************************************************************)
(* getalternative/adyen-slack-assistant: the permission evaluator          *)
(* (internal/permissions), the approval workflow and its DynamoDB store    *)
(* (internal/approval) and the processor's message and reaction handlers   *)
(* (cmd/processor).                                                        *)
(*                                                                         *)
(* Time is counted in whole minutes: the code compares Unix seconds, and   *)
(* every instant of the model is a multiple of 60 of them.                 *)
(*                                                                         *)
(* Two specifications:                                                     *)
(*   Spec       the processor: concurrent Lambda invocations handling      *)
(*              message and reaction events against one approval table.    *)
(*              The Slack post and the DynamoDB calls succeed.             *)
(*   SpecFaulty Spec, and RequestApproval calls in which the Slack post or  *)
(*              the DynamoDB put fails.                                    *)
(*   SpecCheck  Checker.Check applied once to inputs and a configuration   *)
(*              drawn from bounded sets.                                   *)
(***************************************************************************)
EXTENDS Integers, Sequences, FiniteSets, TLC

\* ---------------------------------------------------------------- bounds
MaxMessages  == 1    \* message events delivered in one behaviour
MaxReactions == 2    \* reaction events delivered in one behaviour
MaxTicks     == 2    \* clock advances in one behaviour
MaxThreshold == 2    \* largest maxAmount of a policy drawn in SpecCheck

\* ------------------------------------------------------ program constants
ApprovalTTL      == 15       \* approval.go:19, minutes
DefaultRefundMax == 10000    \* config.go:204, cents

\* --------------------------------------------------------------- universe
UserIDs    == {"U1", "U2", "U3"}
ChannelIDs == {"C1", "C2"}
GroupIDs   == {"G1", "G2"}

\* contains (permissions.go:150, approval.go:214)
contains(slice, item) == \E i \in 1..Len(slice) : slice[i] = item

\* ============================================================ permissions

\* ActionType (permissions.go:9): tool name -> category
ActionType ==
  [ get_payment_status       |-> "read",
    get_payment_details      |-> "read",
    list_payment_methods     |-> "read",
    list_terminals           |-> "read",
    get_terminal_details     |-> "read",
    get_webhooks             |-> "read",
    list_merchants           |-> "read",
    get_merchant_details     |-> "read",
    create_payment_link      |-> "create",
    create_payment_session   |-> "create",
    refund_payment           |-> "refund",
    cancel_payment           |-> "cancel",
    expire_payment_link      |-> "cancel",
    update_terminal_settings |-> "create" ]

\* ActionType[action]: a Go map read, "" for a missing key
ActionTypeOf(action) ==
  IF action \in DOMAIN ActionType THEN ActionType[action] ELSE ""

\* config.Action
Action(level, approve, maxAmount) ==
  [Level |-> level, Approve |-> approve, MaxAmount |-> maxAmount]

\* the Actions map of loadPermissions' defaultPerms
DefaultActions ==
  [ refund |-> Action("admin", TRUE, DefaultRefundMax),
    cancel |-> Action("admin", TRUE, 0),
    create |-> Action("admin", FALSE, 0),
    read   |-> Action("any", FALSE, 0) ]

\* a Result that drops the reason
Result_NoReason(allowed, needsApproval, reason, approvers) ==
  [Allowed |-> allowed, NeedsApproval |-> needsApproval,
   Reason |-> "", Approvers |-> approvers]

\* permissions.Result
Result(allowed, needsApproval, reason, approvers) ==
  [Allowed |-> allowed, NeedsApproval |-> needsApproval,
   Reason |-> reason, Approvers |-> approvers]

ReasonChannel == "This bot can only be used in authorized channels."
ReasonAdmin   == "Only admins can perform this action."

\* the group loop of isAdmin, from the i-th group on; lookup[g] is the answer
\* of slack.GetUsergroupMembers(g) during this call
RECURSIVE isAdminGroups(_, _, _, _)
isAdminGroups(groups, lookup, userID, i) ==
  IF i > Len(groups) THEN FALSE
  ELSE IF lookup[groups[i]].err
    THEN isAdminGroups(groups, lookup, userID, i + 1)
  ELSE IF userID \in lookup[groups[i]].members THEN TRUE
  ELSE isAdminGroups(groups, lookup, userID, i + 1)

\* the groups the loop of isAdmin queries, from the i-th group on, in order:
\* it goes on after a failed lookup and stops at the first group that lists
\* the user
RECURSIVE groupsQueried(_, _, _, _)
groupsQueried(groups, lookup, userID, i) ==
  IF i > Len(groups) THEN <<>>
  ELSE IF ~lookup[groups[i]].err /\ userID \in lookup[groups[i]].members
    THEN <<groups[i]>>
  ELSE <<groups[i]>> \o groupsQueried(groups, lookup, userID, i + 1)

\* a group loop that gives up at the first failed lookup
RECURSIVE isAdminGroups_Abort(_, _, _, _)
isAdminGroups_Abort(groups, lookup, userID, i) ==
  IF i > Len(groups) THEN FALSE
  ELSE IF lookup[groups[i]].err THEN FALSE
  ELSE IF userID \in lookup[groups[i]].members THEN TRUE
  ELSE isAdminGroups_Abort(groups, lookup, userID, i + 1)

\* an admin check that gives up at the first failed lookup
isAdmin_ErrorAborts(perms, lookup, userID) ==
  IF contains(perms.Users, userID) THEN TRUE
  ELSE isAdminGroups_Abort(perms.Groups, lookup, userID, 1)

\* an admin check that takes a failed lookup for a membership
isAdmin_ErrorGrants(perms, lookup, userID) ==
  IF contains(perms.Users, userID) THEN TRUE
  ELSE \/ isAdminGroups(perms.Groups, lookup, userID, 1)
       \/ \E i \in 1..Len(perms.Groups) : lookup[perms.Groups[i]].err

\* Checker.isAdmin
isAdmin(perms, lookup, userID) ==
  IF contains(perms.Users, userID) THEN TRUE
  ELSE isAdminGroups(perms.Groups, lookup, userID, 1)

\* an approver list that keeps the requesting user
getOtherAdmins_All(perms, excludeUserID) == perms.Users

\* Checker.getOtherAdmins
getOtherAdmins(perms, excludeUserID) ==
  SelectSeq(perms.Users, LAMBDA u : u # excludeUserID)

\* a channel restriction that needs two listed channels to apply
channelDenied_TwoOrMore(perms, channelID) ==
  ~contains(perms.Channels, channelID) /\ Len(perms.Channels) > 1

\* step 1 of Check: the channel restriction
channelDenied(perms, channelID) ==
  ~contains(perms.Channels, channelID) /\ Len(perms.Channels) > 0

\* an unknown name taken for a refund
actionCfgOf_UnknownIsRefund(perms, action) ==
  LET actionType == IF ActionTypeOf(action) = "" THEN "refund"
                    ELSE ActionTypeOf(action)
  IN  IF actionType \in DOMAIN perms.Actions THEN perms.Actions[actionType]
      ELSE Action("any", FALSE, 0)

\* a category without a policy taken for an admin action
actionCfgOf_MissingIsAdmin(perms, action) ==
  LET actionType == IF ActionTypeOf(action) = "" THEN "read"
                    ELSE ActionTypeOf(action)
  IN  IF actionType \in DOMAIN perms.Actions THEN perms.Actions[actionType]
      ELSE Action("admin", FALSE, 0)

\* steps 2 and 3 of Check: the category and its policy
actionCfgOf(perms, action) ==
  LET actionType == IF ActionTypeOf(action) = "" THEN "read"
                    ELSE ActionTypeOf(action)
  IN  IF actionType \in DOMAIN perms.Actions THEN perms.Actions[actionType]
      ELSE Action("any", FALSE, 0)

\* an exclusive threshold
needsApproval_Exclusive(actionCfg, amount) ==
  IF actionCfg.MaxAmount > 0 /\ amount < actionCfg.MaxAmount THEN FALSE
  ELSE actionCfg.Approve

\* a threshold of 0 taken as a threshold
needsApproval_ZeroIsThreshold(actionCfg, amount) ==
  IF actionCfg.MaxAmount >= 0 /\ amount <= actionCfg.MaxAmount THEN FALSE
  ELSE actionCfg.Approve

\* step 6 of Check: whether approval is needed
needsApproval(actionCfg, amount) ==
  IF actionCfg.MaxAmount > 0 /\ amount <= actionCfg.MaxAmount THEN FALSE
  ELSE actionCfg.Approve

\* Checker.Check
Check(perms, lookup, userID, channelID, action, amount) ==
  IF channelDenied(perms, channelID)
    THEN Result(FALSE, FALSE, ReasonChannel, <<>>)
  ELSE LET actionCfg == actionCfgOf(perms, action) IN
    IF actionCfg.Level = "any" THEN Result(TRUE, FALSE, "", <<>>)
    ELSE IF ~isAdmin(perms, lookup, userID)
      THEN Result(FALSE, FALSE, ReasonAdmin, <<>>)
    ELSE IF needsApproval(actionCfg, amount)
      THEN Result(TRUE, TRUE, "", getOtherAdmins(perms, userID))
    ELSE Result(TRUE, FALSE, "", <<>>)

\* an admin check that queries every group, whatever the answers
isAdminQueries_AllGroups(perms, lookup, userID) ==
  IF contains(perms.Users, userID) THEN <<>> ELSE perms.Groups

\* the GetUsergroupMembers calls of isAdmin, in order (permissions.go:107)
isAdminQueries(perms, lookup, userID) ==
  IF contains(perms.Users, userID) THEN <<>>
  ELSE groupsQueried(perms.Groups, lookup, userID, 1)

\* the GetUsergroupMembers calls of one Check, in order: Check returns before
\* isAdmin for a denied channel and for the level any, and getOtherAdmins
\* makes none (permissions.go:51-104, 135)
checkQueries(perms, lookup, userID, channelID, action) ==
  IF channelDenied(perms, channelID) THEN <<>>
  ELSE IF actionCfgOf(perms, action).Level = "any" THEN <<>>
  ELSE isAdminQueries(perms, lookup, userID)

\* ----------------------------------------------- inputs of the evaluator
\* answers of the directory for one group: a failure, or a member list
LookupAnswers ==
  { [err |-> TRUE,  members |-> {}],
    [err |-> FALSE, members |-> {}],
    [err |-> FALSE, members |-> {"U3"}] }

Lookups == [GroupIDs -> LookupAnswers]

ActionNames ==
  {"refund_payment", "cancel_payment", "create_payment_link",
   "get_payment_status", "unknown_tool"}

Policies ==
  { Action(l, a, m) : l \in {"any", "admin"}, a \in BOOLEAN,
                      m \in {0, MaxThreshold - 1, MaxThreshold} }

\* policy maps: the defaults with the refund policy or the read policy
\* replaced, the defaults without the refund entry, and the empty map
ActionMaps ==
  { [DefaultActions EXCEPT !.refund = p] : p \in Policies }
    \cup { [DefaultActions EXCEPT !.read = p] : p \in Policies }
    \cup { [c \in {"cancel", "create", "read"} |-> DefaultActions[c]] }
    \cup { [c \in {} |-> Action("any", FALSE, 0)] }

CheckPerms ==
  { [Channels |-> ch, Users |-> us, Groups |-> gs, Actions |-> am] :
      ch \in {<<>>, <<"C1">>},
      us \in {<<>>, <<"U1">>, <<"U1", "U2">>},
      gs \in {<<>>, <<"G1">>, <<"G1", "G2">>},
      am \in ActionMaps }

CheckAmounts == (0 - 1)..(MaxThreshold + 1)

\* ================================================================= state
VARIABLES
  perms,     \* cfg.Permissions, loaded once and immutable
  chk,       \* SpecCheck: the Check call made, <<>> before it
  now,       \* the clock, minutes
  ticks,     \* clock advances so far
  table,     \* the DynamoDB table: request ID -> item
  nextTs,    \* the timestamp Slack gives the next posted prompt
  inv,       \* the processor invocations started so far, in order of start
  toolLog,   \* the CallTool calls made, in order
  env,       \* PERMISSIONS_JSON as the operator supplied it
  rt,        \* SpecResponse: the CallTool round trip made, <<>> before it
  requestID, \* Client.requestID
  mu,        \* Client.mu: "" when free, else the caller that holds it
  child,     \* the MCP server process of Client.cmd
  ctx,       \* the context of the handler invocation in progress
  hpc,       \* the position of the handler invocation in progress
  runs,      \* the handler invocations so far, in order
  wire,      \* every request written to a child's stdin, in order
  pending,   \* the requests the running child has not answered yet
  out,       \* the lines in the child's stdout pipe that were not read yet
  callers    \* the goroutines that call CallTool

bridgeVars ==
  <<requestID, mu, child, ctx, hpc, runs, wire, pending, out, callers>>

outerVars == <<env, rt, bridgeVars>>

vars == <<perms, chk, now, ticks, table, nextTs, inv, toolLog, outerVars>>

workflowVars == <<now, ticks, table, nextTs, inv, toolLog>>

\* the goroutines that may call CallTool on the client during an invocation
Callers == {"a", "b"}

\* a goroutine outside CallTool; ret is what its last call returned
IdleCaller == [pc |-> "idle", id |-> 0, ret |-> ""]

\* the client after adyen.New (client.go:81): no process, requestID 0
BridgeInit ==
  /\ requestID = 0
  /\ mu = ""
  /\ child = "none"
  /\ ctx = "none"
  /\ hpc = "idle"
  /\ runs = <<>>
  /\ wire = <<>>
  /\ pending = <<>>
  /\ out = <<>>
  /\ callers = [c \in Callers |-> IdleCaller]

\* PERMISSIONS_JSON: unset, a document that decodes into a policy, or a
\* document json.Unmarshal rejects
EnvUnset     == [kind |-> "unset", value |-> <<>>]
EnvMalformed == [kind |-> "malformed", value |-> <<>>]
EnvPolicy(p) == [kind |-> "json", value |-> p]

\* defaultPerms of loadPermissions (config.go:195)
defaultPerms ==
  [Channels |-> <<>>, Users |-> <<>>, Groups |-> <<>>,
   Actions |-> DefaultActions]

\* loadPermissions (config.go:193): the decoded document, the defaults when
\* the variable is unset or does not decode
loadPermissions(e) == IF e.kind = "json" THEN e.value ELSE defaultPerms

WorkflowInit ==
  /\ rt = <<>>
  /\ BridgeInit
  /\ chk = <<>>
  /\ now = 0
  /\ ticks = 0
  /\ table = <<>>
  /\ nextTs = 1
  /\ inv = <<>>
  /\ toolLog = <<>>

\* ============================================================= SpecCheck
InitCheck ==
  /\ perms \in CheckPerms
  /\ env = EnvPolicy(perms)
  /\ WorkflowInit

\* one call of Checker.Check
DoCheck ==
  /\ chk = <<>>
  /\ \E u \in UserIDs, c \in ChannelIDs, a \in ActionNames,
        amt \in CheckAmounts, lk \in Lookups :
       chk' = << [userID |-> u, channelID |-> c, action |-> a, amount |-> amt,
                  lookup |-> lk,
                  queried |-> checkQueries(perms, lk, u, c, a),
                  result |-> Check(perms, lk, u, c, a, amt)] >>
  /\ UNCHANGED <<perms, workflowVars, outerVars>>

NextCheck == DoCheck

SpecCheck == InitCheck /\ [][NextCheck]_vars

\* ======================================================= approval workflow

\* Message.GetThreadTs (slack/client.go:30)
GetThreadTs(msg) == IF msg.ThreadTs # "" THEN msg.ThreadTs ELSE msg.Ts

\* approval.Request
Request(id, ch, th, by, action, params, amount, expiresAt, approvers) ==
  [ID |-> id, Channel |-> ch, ThreadTs |-> th, RequestedBy |-> by,
   Action |-> action, Params |-> params, Amount |-> amount,
   ExpiresAt |-> expiresAt, Approvers |-> approvers]

\* an encoding that drops the argument payload
Marshal_NoParams(req) ==
  <<req.ID, req.Channel, req.ThreadTs, req.RequestedBy, req.Action,
    <<>>, req.Amount, req.ExpiresAt, req.Approvers>>

\* json.Marshal(req) in Manager.store: the fields in declaration order
Marshal(req) ==
  <<req.ID, req.Channel, req.ThreadTs, req.RequestedBy, req.Action,
    req.Params, req.Amount, req.ExpiresAt, req.Approvers>>

\* json.Unmarshal into a Request in Manager.get
Unmarshal(data) ==
  Request(data[1], data[2], data[3], data[4], data[5], data[6], data[7],
          data[8], data[9])

\* the item Manager.store puts
Item(req) ==
  [pk |-> req.ID, data |-> Marshal(req), expiresAt |-> req.ExpiresAt]

\* Manager.store: PutItem under the key req.ID
store(tbl, req) ==
  [k \in DOMAIN tbl \cup {req.ID} |-> IF k = req.ID THEN Item(req) ELSE tbl[k]]

\* Manager.get: <<>> for a missing item (nil), else the decoded request
get(tbl, id) ==
  IF id \in DOMAIN tbl THEN <<Unmarshal(tbl[id].data)>> ELSE <<>>

\* a delete that removes nothing
delete_Noop(tbl, id) == tbl

\* Manager.delete: DeleteItem without a condition, a success whether or not
\* the item exists
delete(tbl, id) == [k \in DOMAIN tbl \ {id} |-> tbl[k]]

\* an expiry without the approval window
expiresAtFrom_NoTTL(t) == t

\* the expiry RequestApproval gives a request created at time t
expiresAtFrom(t) == t + ApprovalTTL

\* an expiry test that never fires
isExpired_Never(t, req) == FALSE

\* an expiry test that fires at the expiry instant already
isExpired_AtExpiry(t, req) == t >= req.ExpiresAt

\* the expiry test of HandleReaction
isExpired(t, req) == t > req.ExpiresAt

\* strings.TrimPrefix(reaction, ":") and strings.TrimSuffix(reaction, ":");
\* a reaction name is a sequence of pieces, the piece ":" being one colon
TrimPrefix(r) == IF Len(r) > 0 /\ r[1] = ":" THEN Tail(r) ELSE r
TrimSuffix(r) ==
  IF Len(r) > 0 /\ r[Len(r)] = ":" THEN SubSeq(r, 1, Len(r) - 1) ELSE r

normalize(reaction) == TrimSuffix(TrimPrefix(reaction))

isApprove(reaction) ==
  normalize(reaction) \in {<<"white_check_mark">>, <<"+1">>, <<"heavy_check_mark">>}

\* a classification that takes every name that is not approve-like for a
\* reject
isReject_AllOthers(reaction) == ~isApprove(reaction)

isReject(reaction) ==
  normalize(reaction) \in {<<"x">>, <<"-1">>, <<"no_entry">>}

\* an extraction that finds the number whatever the shape of the entry
extractAmount_AnyShape(args) == args.num

\* extractAmount (cmd/processor/main.go:398); the arguments are described by
\* the shape of their "amount" entry and the number it carries
extractAmount(args) ==
  IF args.shape = "object" THEN args.num
  ELSE IF args.shape = "number" THEN args.num
  ELSE 0

\* the index of the first tool call whose arguments parse, 0 if none: the
\* loop of handleMessage skips the others and returns at the first one
RECURSIVE firstParsable(_, _)
firstParsable(toolCalls, i) ==
  IF i > Len(toolCalls) THEN 0
  ELSE IF toolCalls[i].parses THEN i
  ELSE firstParsable(toolCalls, i + 1)

\* ------------------------------------------------- processor invocations
\* a message invocation keeps the event (user, channel), the tool call it
\* settled on, the verdict, the ID of the prompt it posted, the thread it
\* posted to and the time of its RequestApproval, and, for a user who is not
\* in the admin user list, the directory's answers; a reaction invocation keeps the event (user, reaction,
\* target ts), the record it fetched, what HandleReaction returned (req,
\* decision, err), the time HandleReaction returned, and whether a decision for
\* its target had been returned before it started
Invocation(kind, user, channel, reaction, ts) ==
  [kind |-> kind, user |-> user, channel |-> channel, reaction |-> reaction,
   ts |-> ts, pc |-> "done", outcome |-> "", perm |-> <<>>, call |-> <<>>,
   fetched |-> <<>>, req |-> <<>>, decision |-> "", err |-> "",
   afterDecision |-> FALSE, requestedAt |-> 0 - 1, returnedAt |-> 0 - 1,
   lookup |-> <<>>, thread |-> ""]

Started(kind) == {i \in DOMAIN inv : inv[i].kind = kind}

\* the request IDs some HandleReaction call has returned a decision for
Decided == {inv[i].ts : i \in {j \in DOMAIN inv : inv[j].decision # ""}}

\* Client.CallTool as the processor sees it: one more call in the log
CallTool(by, name, arguments, reqID) ==
  toolLog' = Append(toolLog,
               [by |-> by, name |-> name, arguments |-> arguments,
                req |-> reqID])

\* a RequestApproval that posts the prompt and returns before the store
RequestApproval_NoStore(msg, action, params, amount, approvers) ==
  /\ nextTs' = nextTs + 1
  /\ table' = table

\* Manager.RequestApproval: post the prompt, then store the request under the
\* timestamp of the posted message
RequestApproval(msg, action, params, amount, approvers) ==
  LET ts  == nextTs
      req == Request(ts, msg.Channel, GetThreadTs(msg), msg.User, action,
                     params, amount, expiresAtFrom(now), approvers)
  IN  /\ nextTs' = nextTs + 1
      /\ table' = store(table, req)

\* what an invocation keeps of the directory's answers: nothing for a user in
\* the admin user list, for whom isAdmin returns before any lookup
directoryAnswers(user, lookup) ==
  IF contains(perms.Users, user) THEN <<>> ELSE <<lookup>>

\* handleMessage (cmd/processor/main.go:274). Its only access to the table is
\* the put of RequestApproval, so the handler is one step.
handleMessage(user, channel, threadTs, resp, lookup) ==
  LET me  == Len(inv) + 1
      msg == [Channel |-> channel, User |-> user, Ts |-> "m", ThreadTs |-> threadTs]
      rec == Invocation("message", user, channel, <<>>, 0)
      k   == firstParsable(resp.ToolCalls, 1)
  IN
  /\ IF resp.err THEN
       /\ inv' = Append(inv, [rec EXCEPT !.outcome = "llm_error"])
       /\ UNCHANGED <<table, nextTs, toolLog>>
     ELSE IF Len(resp.ToolCalls) = 0 THEN
       /\ inv' = Append(inv, [rec EXCEPT !.outcome = "replied"])
       /\ UNCHANGED <<table, nextTs, toolLog>>
     ELSE IF k = 0 THEN
       /\ inv' = Append(inv, [rec EXCEPT !.outcome = "skipped"])
       /\ UNCHANGED <<table, nextTs, toolLog>>
     ELSE
       LET toolCall   == resp.ToolCalls[k]
           amount     == extractAmount(toolCall.args)
           permResult == Check(perms, lookup, user, channel, toolCall.name, amount)
           checked    == [rec EXCEPT !.perm = <<permResult>>,
                                     !.call = <<toolCall>>,
                                     !.lookup = directoryAnswers(user, lookup)]
       IN
       IF ~permResult.Allowed THEN
         /\ inv' = Append(inv, [checked EXCEPT !.outcome = "denied"])
         /\ UNCHANGED <<table, nextTs, toolLog>>
       ELSE IF permResult.NeedsApproval THEN
         /\ RequestApproval(msg, toolCall.name, toolCall.args, amount,
                            permResult.Approvers)
         /\ inv' = Append(inv, [checked EXCEPT !.outcome = "pending",
                                               !.ts = nextTs,
                                               !.thread = GetThreadTs(msg),
                                               !.requestedAt = now])
         /\ UNCHANGED toolLog
       ELSE
         /\ CallTool(me, toolCall.name, toolCall.args, 0)
         /\ inv' = Append(inv, [checked EXCEPT !.outcome = "executed"])
         /\ UNCHANGED <<table, nextTs>>
  /\ UNCHANGED <<perms, chk, now, ticks, outerVars>>

\* RequestApproval when PostToChannel fails (approval.go:79-82): no prompt, no
\* record
RequestApprovalPostFails(msg, action, params, amount, approvers) ==
  /\ nextTs' = nextTs
  /\ table' = table

\* a failed put that has written the record all the same
storeFails_Written(tbl, req) == store(tbl, req)

\* Manager.store when PutItem fails: the table is as it was
storeFails(tbl, req) == tbl

\* RequestApproval when the store fails (approval.go:97-99): the prompt is
\* posted, the record is not written
RequestApprovalStoreFails(msg, action, params, amount, approvers) ==
  LET ts  == nextTs
      req == Request(ts, msg.Channel, GetThreadTs(msg), msg.User, action,
                     params, amount, expiresAtFrom(now), approvers)
  IN  /\ nextTs' = nextTs + 1
      /\ table' = storeFails(table, req)

\* handleMessage when its RequestApproval fails (main.go:329-335): the error is
\* replied to the thread and the handler returns; fault names the call that
\* failed
handleMessageFails(user, channel, threadTs, resp, lookup, fault) ==
  LET msg == [Channel |-> channel, User |-> user, Ts |-> "m", ThreadTs |-> threadTs]
      rec == Invocation("message", user, channel, <<>>, 0)
      k   == firstParsable(resp.ToolCalls, 1)
  IN
  /\ ~resp.err
  /\ k # 0
  /\ LET toolCall   == resp.ToolCalls[k]
         amount     == extractAmount(toolCall.args)
         permResult == Check(perms, lookup, user, channel, toolCall.name, amount)
         checked    == [rec EXCEPT !.perm = <<permResult>>,
                                   !.call = <<toolCall>>,
                                   !.lookup = directoryAnswers(user, lookup),
                                   !.outcome = "approval_error",
                                   !.requestedAt = now]
     IN
     /\ permResult.Allowed
     /\ permResult.NeedsApproval
     /\ IF fault = "post" THEN
          /\ RequestApprovalPostFails(msg, toolCall.name, toolCall.args, amount,
                                      permResult.Approvers)
          /\ inv' = Append(inv, [checked EXCEPT
                                   !.err = "failed to post approval message"])
        ELSE
          /\ RequestApprovalStoreFails(msg, toolCall.name, toolCall.args, amount,
                                       permResult.Approvers)
          /\ inv' = Append(inv, [checked EXCEPT
                                   !.ts = nextTs,
                                   !.thread = GetThreadTs(msg),
                                   !.err = "failed to store approval"])
  /\ UNCHANGED <<perms, chk, now, ticks, toolLog, outerVars>>

\* handleReaction up to the get of Manager.HandleReaction
\* (approval.go:105-125): normalise and classify the reaction, fetch the record.
\* HandleReaction never reads its channel argument, and the invocation does
\* not keep it.
reactionFetch(reaction, user, channel, messageTs) ==
  LET rec == [Invocation("reaction", user, "", reaction, messageTs)
                EXCEPT !.afterDecision = messageTs \in Decided]
      req == get(table, messageTs)
  IN
  /\ IF ~isApprove(reaction) /\ ~isReject(reaction) THEN
       inv' = Append(inv, [rec EXCEPT !.outcome = "irrelevant",
                                      !.returnedAt = now])
     ELSE IF req = <<>> THEN
       inv' = Append(inv, [rec EXCEPT !.outcome = "not_found",
                                      !.returnedAt = now])
     ELSE
       inv' = Append(inv, [rec EXCEPT !.pc = "fetched", !.fetched = req])
  /\ UNCHANGED <<perms, chk, now, ticks, table, nextTs, toolLog, outerVars>>

\* an approver test that lets every user through
isApprover_Anyone(req, userID) == TRUE

\* the approver test of HandleReaction (approval.go:134)
isApprover(req, userID) == contains(req.Approvers, userID)

\* the rest of Manager.HandleReaction (approval.go:127-146) and the processor's
\* handling of a nil request, an error and a rejection (main.go:364-380)
reactionResolve(i) ==
  LET r   == inv[i]
      req == r.fetched[1]
  IN
  /\ r.kind = "reaction"
  /\ r.pc = "fetched"
  /\ IF isExpired(now, req) THEN
       /\ table' = delete(table, r.ts)
       /\ inv' = [inv EXCEPT ![i] = [r EXCEPT !.pc = "done", !.returnedAt = now,
                                     !.outcome = "expired",
                                     !.err = "approval request has expired"]]
     ELSE IF ~isApprover(req, r.user) THEN
       /\ inv' = [inv EXCEPT ![i] = [r EXCEPT !.pc = "done", !.returnedAt = now,
                                     !.outcome = "not_approver"]]
       /\ UNCHANGED table
     ELSE
       /\ table' = delete(table, r.ts)
       /\ IF isApprove(r.reaction) THEN
            inv' = [inv EXCEPT ![i] = [r EXCEPT !.pc = "approved",
                                       !.returnedAt = now, !.req = r.fetched,
                                       !.decision = "approved"]]
          ELSE
            inv' = [inv EXCEPT ![i] = [r EXCEPT !.pc = "done",
                                       !.returnedAt = now, !.req = r.fetched,
                                       !.decision = "rejected",
                                       !.outcome = "rejected"]]
  /\ UNCHANGED <<perms, chk, now, ticks, nextTs, toolLog, outerVars>>

\* handleReaction after an approval (main.go:382-395): execute the tool
reactionExecute(i) ==
  LET r == inv[i] IN
  /\ r.kind = "reaction"
  /\ r.pc = "approved"
  /\ CallTool(i, r.req[1].Action, r.req[1].Params, r.req[1].ID)
  /\ inv' = [inv EXCEPT ![i] = [r EXCEPT !.pc = "done", !.outcome = "executed"]]
  /\ UNCHANGED <<perms, chk, now, ticks, table, nextTs, outerVars>>

\* the clock advances by a minute or by the approval window
Tick(d) ==
  /\ ticks < MaxTicks
  /\ now' = now + d
  /\ ticks' = ticks + 1
  /\ UNCHANGED <<perms, chk, table, nextTs, inv, toolLog, outerVars>>

\* ------------------------------------------------ inputs of the processor
ReactionNames == { <<"white_check_mark">>, <<":", "x", ":">>, <<"eyes">> }

ThreadIDs == {"", "t0"}

ToolArgs ==
  { [shape |-> "number", num |-> a] :
      a \in {DefaultRefundMax, DefaultRefundMax + 1} }

ToolCalls ==
  { [name |-> n, parses |-> TRUE, args |-> a] :
      n \in {"refund_payment", "get_payment_status"}, a \in ToolArgs }

Unparsable ==
  [name |-> "refund_payment", parses |-> FALSE,
   args |-> [shape |-> "absent", num |-> 0]]

\* answers of llmClient.ProcessMessage
Responses ==
  { [err |-> TRUE, ToolCalls |-> <<>>], [err |-> FALSE, ToolCalls |-> <<>>],
    [err |-> FALSE, ToolCalls |-> <<Unparsable>>] }
    \cup { [err |-> FALSE, ToolCalls |-> <<tc>>] : tc \in ToolCalls }
    \cup { [err |-> FALSE, ToolCalls |-> <<Unparsable, tc>>] :
             tc \in {c \in ToolCalls : c.name = "refund_payment"} }

\* the directory's answers during one Check: SpecPerms configures one group
SpecLookups == { [g \in GroupIDs |-> a] : a \in LookupAnswers }

\* the operator's configuration: two admin users, one admin group, the default
\* policies, with and without a channel allow-list
SpecPerms ==
  { [Channels |-> ch, Users |-> <<"U1", "U2">>, Groups |-> <<"G1">>,
     Actions |-> DefaultActions] : ch \in {<<>>, <<"C1">>} }

PromptIDs == 1..MaxMessages

Init ==
  /\ perms \in SpecPerms
  /\ env = EnvPolicy(perms)
  /\ WorkflowInit

\* handler (main.go:245): a queued message event is delivered to an invocation
MessageEvent ==
  /\ Cardinality(Started("message")) < MaxMessages
  /\ \E u \in UserIDs, c \in ChannelIDs, th \in ThreadIDs,
        resp \in Responses, lk \in SpecLookups :
       handleMessage(u, c, th, resp, lk)

\* handler (main.go:245): a queued reaction event is delivered to an invocation
ReactionEvent ==
  /\ Cardinality(Started("reaction")) < MaxReactions
  /\ \E r \in ReactionNames, u \in UserIDs, c \in ChannelIDs, ts \in PromptIDs :
       reactionFetch(r, u, c, ts)

Next ==
  \/ MessageEvent
  \/ ReactionEvent
  \/ \E i \in DOMAIN inv : reactionResolve(i)
  \/ \E i \in DOMAIN inv : reactionExecute(i)
  \/ \E d \in {1, ApprovalTTL} : Tick(d)

Spec == Init /\ [][Next]_vars

\* handler (main.go:245): a queued message event is delivered to an invocation
\* whose RequestApproval fails
FaultyMessageEvent ==
  /\ Cardinality(Started("message")) < MaxMessages
  /\ \E u \in UserIDs, c \in ChannelIDs, th \in ThreadIDs,
        resp \in Responses, lk \in SpecLookups, fault \in {"post", "store"} :
       handleMessageFails(u, c, th, resp, lk, fault)

NextFaulty ==
  \/ Next
  \/ FaultyMessageEvent

SpecFaulty == Init /\ [][NextFaulty]_vars

\* ========================================================= SpecStoreFaulty
\* Spec and, next to it, HandleReaction calls whose GetItem or DeleteItem fails

MaxFaults == 1    \* store calls of HandleReaction that fail

\* the HandleReaction calls so far in which a store call failed
StoreFaults == {i \in DOMAIN inv : inv[i].outcome = "store_error"}

\* a HandleReaction that takes a failed delete for a success
resolution_IgnoresDeleteError(req, reaction, deleteFailed) ==
  IF isApprove(reaction) THEN [req |-> <<req>>, decision |-> "approved", err |-> ""]
  ELSE [req |-> <<req>>, decision |-> "rejected", err |-> ""]

\* what HandleReaction returns for an unexpired record and a listed approver,
\* from the return of m.delete on (approval.go:139-146)
resolution(req, reaction, deleteFailed) ==
  IF deleteFailed
    THEN [req |-> <<>>, decision |-> "", err |-> "failed to delete approval"]
  ELSE IF isApprove(reaction)
    THEN [req |-> <<req>>, decision |-> "approved", err |-> ""]
  ELSE [req |-> <<req>>, decision |-> "rejected", err |-> ""]

\* Manager.delete when DeleteItem fails: the table is as it was
deleteFails(tbl, id) == tbl

\* handleReaction when m.get fails (approval.go:119-122, 175-191): the error
\* is returned to the handler (main.go:364-366)
reactionFetchFails(reaction, user, channel, messageTs) ==
  LET rec == [Invocation("reaction", user, "", reaction, messageTs)
                EXCEPT !.afterDecision = messageTs \in Decided]
  IN
  /\ isApprove(reaction) \/ isReject(reaction)
  /\ inv' = Append(inv, [rec EXCEPT !.outcome = "store_error",
                                    !.err = "get failed",
                                    !.returnedAt = now])
  /\ UNCHANGED <<perms, chk, now, ticks, table, nextTs, toolLog, outerVars>>

\* the rest of HandleReaction when the delete of the resolving approver fails
\* (approval.go:127-141), and the processor's handling of what it returns
\* (main.go:364-380)
reactionResolveFails(i) ==
  LET r   == inv[i]
      req == r.fetched[1]
      ret == resolution(req, r.reaction, TRUE)
  IN
  /\ r.kind = "reaction"
  /\ r.pc = "fetched"
  /\ Cardinality(StoreFaults) < MaxFaults
  /\ ~isExpired(now, req)
  /\ isApprover(req, r.user)
  /\ table' = deleteFails(table, r.ts)
  /\ inv' = [inv EXCEPT ![i] =
       [r EXCEPT !.pc = IF ret.decision = "approved" THEN "approved" ELSE "done",
                 !.returnedAt = now,
                 !.req = ret.req,
                 !.decision = ret.decision,
                 !.err = ret.err,
                 !.outcome = IF ret.err # "" THEN "store_error"
                             ELSE IF ret.decision = "rejected" THEN "rejected"
                             ELSE ""]]
  /\ UNCHANGED <<perms, chk, now, ticks, nextTs, toolLog, outerVars>>

\* handler (main.go:245): a queued reaction event is delivered to an invocation
\* whose fetch fails
FaultyReactionEvent ==
  /\ Cardinality(Started("reaction")) < MaxReactions
  /\ Cardinality(StoreFaults) < MaxFaults
  /\ \E r \in ReactionNames, u \in UserIDs, c \in ChannelIDs, ts \in PromptIDs :
       reactionFetchFails(r, u, c, ts)

NextStoreFaulty ==
  \/ Next
  \/ FaultyReactionEvent
  \/ \E i \in DOMAIN inv : reactionResolveFails(i)

SpecStoreFaulty == Init /\ [][NextStoreFaulty]_vars

\* ========================================================== SpecFewAdmins
\* the processor under configurations with at most one admin user and one
\* admin group
FewAdminPerms ==
  { [Channels |-> <<>>, Users |-> us, Groups |-> <<"G1">>,
     Actions |-> DefaultActions] : us \in {<<>>, <<"U1">>} }

InitFewAdmins ==
  /\ perms \in FewAdminPerms
  /\ env = EnvPolicy(perms)
  /\ WorkflowInit

SpecFewAdmins == InitFewAdmins /\ [][Next]_vars

\* ============================================================= SpecAmount
\* handleMessage on tool calls whose arguments carry the amount in every
\* shape: a number, an object with a number under value, a string, an object
\* without a number under value, or no entry at all
AmountShapes == {"number", "object", "string", "object_no_number", "absent"}

AmountArgs ==
  { [shape |-> sh, num |-> a] :
      sh \in AmountShapes, a \in {DefaultRefundMax, DefaultRefundMax + 1} }

AmountResponses ==
  { [err |-> FALSE,
     ToolCalls |-> << [name |-> n, parses |-> TRUE, args |-> a] >>] :
      n \in {"refund_payment", "cancel_payment"}, a \in AmountArgs }

\* handler (main.go:245): a queued message event is delivered to an invocation
AmountMessageEvent ==
  /\ Cardinality(Started("message")) < MaxMessages
  /\ \E u \in UserIDs, c \in ChannelIDs, th \in ThreadIDs,
        resp \in AmountResponses, lk \in SpecLookups :
       handleMessage(u, c, th, resp, lk)

NextAmount == AmountMessageEvent

SpecAmount == Init /\ [][NextAmount]_vars

\* ============================================================ SpecChannel
\* the processor with reaction invocations that keep the channel of their
\* event

MaxChannelReactions == 1    \* reaction events delivered under SpecChannel

\* a fetch under a key that depends on the channel of the event
lookupKey_PerChannel(channel, messageTs) ==
  IF channel = "C1" THEN messageTs ELSE 0

\* the key HandleReaction fetches and deletes under: its messageTs argument;
\* the channel argument is not read (approval.go:105, 119)
lookupKey(channel, messageTs) == messageTs

\* reactionFetch for an invocation that keeps the channel of its event
reactionFetchFrom(reaction, user, channel, messageTs) ==
  LET rec == [Invocation("reaction", user, channel, reaction, messageTs)
                EXCEPT !.afterDecision = messageTs \in Decided]
      req == get(table, lookupKey(channel, messageTs))
  IN
  /\ IF ~isApprove(reaction) /\ ~isReject(reaction) THEN
       inv' = Append(inv, [rec EXCEPT !.outcome = "irrelevant",
                                      !.returnedAt = now])
     ELSE IF req = <<>> THEN
       inv' = Append(inv, [rec EXCEPT !.outcome = "not_found",
                                      !.returnedAt = now])
     ELSE
       inv' = Append(inv, [rec EXCEPT !.pc = "fetched", !.fetched = req])
  /\ UNCHANGED <<perms, chk, now, ticks, table, nextTs, toolLog, outerVars>>

\* the operator's configuration under SpecChannel: no channel allow-list
ChannelPerms == {p \in SpecPerms : p.Channels = <<>>}

InitChannel ==
  /\ perms \in ChannelPerms
  /\ env = EnvPolicy(perms)
  /\ WorkflowInit

\* handler (main.go:245): a queued reaction event is delivered to an invocation
ChannelReactionEvent ==
  /\ Cardinality(Started("reaction")) < MaxChannelReactions
  /\ \E r \in ReactionNames, u \in UserIDs, c \in ChannelIDs, ts \in PromptIDs :
       reactionFetchFrom(r, u, c, ts)

NextChannel ==
  \/ MessageEvent
  \/ ChannelReactionEvent
  \/ \E i \in DOMAIN inv : reactionResolve(i)
  \/ \E i \in DOMAIN inv : reactionExecute(i)
  \/ \E d \in {1, ApprovalTTL} : Tick(d)

SpecChannel == InitChannel /\ [][NextChannel]_vars

\* ============================================================ SpecConfig
\* what the operator may have put in PERMISSIONS_JSON
SuppliedEnvs ==
  {EnvUnset, EnvMalformed} \cup {EnvPolicy(p) : p \in SpecPerms}

\* the process after init (main.go:226): config.Load has run loadPermissions
InitConfig ==
  /\ env \in SuppliedEnvs
  /\ perms = loadPermissions(env)
  /\ WorkflowInit

SpecConfig == InitConfig /\ [][NextCheck]_vars

\* ============================================================ tool bridge
\* strings the bridge handles are sequences of pieces: a text is a sequence of
\* characters, an error message the sequence of the pieces fmt.Errorf joins;
\* the nil error is <<>>

MaxBlocks == 2    \* content blocks in one tool result

\* MCPRequest (client.go:29)
MCPRequest(id, method, params) ==
  [JSONRPC |-> "2.0", ID |-> id, Method |-> method, Params |-> params]

\* CallToolParams (client.go:63)
CallToolParams(name, arguments) == [Name |-> name, Arguments |-> arguments]

\* MCPError (client.go:45)
MCPError(code, message) == [Code |-> code, Message |-> message]

\* ContentBlock (client.go:75)
ContentBlock(type, text) == [Type |-> type, Text |-> text]

\* CallToolResult (client.go:69)
CallToolResult(content, isError) == [Content |-> content, IsError |-> isError]

\* the raw result of a response: a document that decodes into a
\* CallToolResult, or bytes json.Unmarshal rejects (an absent result is empty)
RawResult(value) == [decodes |-> TRUE, value |-> value]
RawUndecodable   == [decodes |-> FALSE, value |-> CallToolResult(<<>>, FALSE)]

\* MCPResponse (client.go:37); Error is <<>> for a nil pointer
MCPResponse(id, result, error) ==
  [JSONRPC |-> "2.0", ID |-> id, Result |-> result, Error |-> error]

\* a line read from the child's stdout: a document that decodes into an
\* MCPResponse, or one that does not
ResponseLine(resp) == [parses |-> TRUE, resp |-> resp]
GarbageLine ==
  [parses |-> FALSE, resp |-> MCPResponse(0, RawUndecodable, <<>>)]

\* what sendRequest and CallTool return
Sent(resp, err)     == [resp |-> resp, err |-> err]
Returned(text, err) == [text |-> text, err |-> err]

\* a sendRequest that takes a response with an error object for a success
parseLine_ErrorSwallowed(line) ==
  IF ~line.parses THEN Sent(<<>>, <<"failed to parse response">>)
  ELSE Sent(<<line.resp>>, <<>>)

\* sendRequest from the line it has read on (client.go:261-270)
parseLine(line) ==
  IF ~line.parses THEN Sent(<<>>, <<"failed to parse response">>)
  ELSE IF line.resp.Error # <<>>
    THEN Sent(<<>>, <<"MCP error ", line.resp.Error[1].Code, ": ",
                      line.resp.Error[1].Message>>)
  ELSE Sent(<<line.resp>>, <<>>)

\* a concatenation that puts the new text first
appendText_Reversed(text, t) == t \o text

\* text += block.Text (client.go:182)
appendText(text, t) == text \o t

\* the loop of CallTool over the content blocks, from the i-th block on
\* (client.go:179-184)
RECURSIVE combineText(_, _, _)
combineText(content, i, text) ==
  IF i > Len(content) THEN text
  ELSE IF content[i].Type = "text"
    THEN combineText(content, i + 1, appendText(text, content[i].Text))
  ELSE combineText(content, i + 1, text)

\* CallTool from the return of its sendRequest on (client.go:161-186)
toolResult(sent) ==
  IF sent.err # <<>> THEN Returned(<<>>, sent.err)
  ELSE LET raw    == sent.resp[1].Result
           result == raw.value
       IN  IF ~raw.decodes
             THEN Returned(<<>>, <<"failed to parse tool result">>)
           ELSE IF result.IsError
             THEN IF Len(result.Content) > 0
                    THEN Returned(<<>>, <<"tool error: ">> \o result.Content[1].Text)
                  ELSE Returned(<<>>, <<"tool execution failed">>)
           ELSE Returned(combineText(result.Content, 1, <<>>), <<>>)

\* ----------------------------------------------- inputs of the round trip
Blocks ==
  { ContentBlock("text", <<"a">>), ContentBlock("text", <<"b">>),
    ContentBlock("image", <<>>) }

RECURSIVE SeqsUpTo(_, _)
SeqsUpTo(S, n) ==
  IF n = 0 THEN {<<>>}
  ELSE LET shorter == SeqsUpTo(S, n - 1)
       IN  shorter \cup {Append(q, x) : q \in shorter, x \in S}

Contents == SeqsUpTo(Blocks, MaxBlocks)

RawResults ==
  {RawUndecodable}
    \cup {RawResult(CallToolResult(c, e)) : c \in Contents, e \in BOOLEAN}

ResponseErrors == {<<>>, <<MCPError(1, "m")>>, <<MCPError(2, "n")>>}

ResponseIDs == {1, 2}

ResponseLines ==
  {GarbageLine}
    \cup {ResponseLine(MCPResponse(i, r, e)) :
            i \in ResponseIDs, r \in RawResults, e \in ResponseErrors}

\* =========================================================== SpecResponse
InitResponse ==
  /\ env = EnvUnset
  /\ perms = loadPermissions(env)
  /\ WorkflowInit

\* one CallTool call on a running child: the request it writes, the line it
\* reads, what it returns
DoRoundTrip ==
  /\ rt = <<>>
  /\ \E name \in {"refund_payment", "get_payment_status"},
        arguments \in ToolArgs, line \in ResponseLines :
       rt' = << [request |-> MCPRequest(1, "tools/call",
                                       CallToolParams(name, arguments)),
                 line |-> line,
                 ret |-> toolResult(parseLine(line))] >>
  /\ UNCHANGED <<perms, chk, workflowVars, env, bridgeVars>>

NextResponse == DoRoundTrip

SpecResponse == InitResponse /\ [][NextResponse]_vars

\* ============================================================= SpecBridge
\* one client (the package-level adyenClient of main.go) over the handler
\* invocations of one container: Start, the CallTool calls of the goroutines
\* in Callers, the deferred Stop; next to them the child process, the
\* invocation context and the goroutine os/exec starts for CommandContext

MaxStarts    == 2    \* handler invocations
MaxRequestID == 5    \* CallTool is not called once requestID has this value

\* atomic.AddInt64(&c.requestID, 1) (client.go:153, 193, 213)
nextRequestID_Same(id) == id

nextRequestID(id) == id + 1

\* c.mu.Lock() returns (client.go:148)
muFree_Always(m) == TRUE

muFree(m) == m = ""

\* the child after a Stop that does not kill it
stop_NoKill(ch) == ch

\* the child after Stop (client.go:131): Kill, if a process was started
stop(ch) == IF ch = "none" THEN "none" ELSE "dead"

\* a Cmd that is not bound to the context
ctxKill_Unbound(ch) == ch

\* the child after the goroutine of exec.CommandContext saw ctx.Done()
\* (client.go:97)
ctxKill(ch) == "dead"

\* the requests a child in state ch still has to answer
pendingOf(ch, p) == IF ch = "running" THEN p ELSE <<>>

\* an entry of the log of the client's pipe operations
Entry(gen, op, id, method, by, ok) ==
  [gen |-> gen, op |-> op, id |-> id, method |-> method, by |-> by, ok |-> ok]

\* a handler invocation: whether cmd.Start succeeded, and how it went on
Run(spawned, outcome) == [spawned |-> spawned, outcome |-> outcome]

\* the invocation in progress or, between invocations, the last one
gen == Len(runs)

\* the lines a child answers request id with
OkLine(id) ==
  ResponseLine(MCPResponse(id,
    RawResult(CallToolResult(<<ContentBlock("text", <<"a">>)>>, FALSE)), <<>>))
ToolErrorLine(id) ==
  ResponseLine(MCPResponse(id,
    RawResult(CallToolResult(<<ContentBlock("text", <<"b">>)>>, TRUE)), <<>>))
RpcErrorLine(id) ==
  ResponseLine(MCPResponse(id, RawUndecodable, <<MCPError(1, "m")>>))
NoResultLine(id) ==
  ResponseLine(MCPResponse(id, RawUndecodable, <<>>))
BridgeLines(id) ==
  {OkLine(id), ToolErrorLine(id), RpcErrorLine(id), NoResultLine(id),
   GarbageLine}

\* c.stdout.ReadBytes('\n') returns (client.go:256): a line is buffered, or
\* the write end of the pipe is closed
canRead == out # <<>> \/ child # "running"

\* sendRequest from its read on (client.go:256-270), o the unread lines
readResult(o) ==
  IF o = <<>> THEN Sent(<<>>, <<"failed to read response">>)
  ELSE parseLine(Head(o))

\* the line a read finds in o is a response without an error object and, when
\* the caller decodes the result, with a result that decodes
goodLine(o, withResult) ==
  /\ o # <<>>
  /\ Head(o).parses
  /\ Head(o).resp.Error = <<>>
  /\ withResult => Head(o).resp.Result.decodes

\* the unread lines after that read
afterRead(o) == IF o = <<>> THEN <<>> ELSE Tail(o)

\* a loadTools that does not look at what sendRequest returned
toolsLoaded_Always(sent) == TRUE

\* loadTools returns nil (client.go:216-223): sendRequest returned no error
\* and the result decodes
toolsLoaded(sent) == sent.err = <<>> /\ sent.resp[1].Result.decodes

\* "ok" or "error", for what CallTool returned
retKind(returned) == IF returned.err = <<>> THEN "ok" ELSE "error"

\* cmd.StdinPipe, cmd.StdoutPipe or cmd.Start fails (client.go:99-113); the
\* handler returns the error (main.go:247-249)
StartFails ==
  /\ hpc = "idle"
  /\ Len(runs) < MaxStarts
  /\ child' = "none"
  /\ pending' = <<>>
  /\ out' = <<>>
  /\ runs' = Append(runs, Run(FALSE, "start_error"))
  /\ UNCHANGED <<perms, chk, workflowVars, env, rt>>
  /\ UNCHANGED <<requestID, mu, ctx, hpc, wire, callers>>

\* Start up to the write of initialize (client.go:86-115, 190-205, 244-253)
StartSpawn ==
  /\ hpc = "idle"
  /\ Len(runs) < MaxStarts
  /\ requestID' = nextRequestID(requestID)
  /\ child' = "running"
  /\ ctx' = "live"
  /\ hpc' = "init_sent"
  /\ runs' = Append(runs, Run(TRUE, "running"))
  /\ wire' = Append(wire, Entry(gen + 1, "write", requestID', "initialize",
                                "start", TRUE))
  /\ pending' = <<[id |-> requestID', method |-> "initialize"]>>
  /\ out' = <<>>
  /\ UNCHANGED <<perms, chk, workflowVars, env, rt, mu, callers>>

\* Start from the read of the initialize response up to the write of
\* tools/list, or to its return when initialize failed (client.go:115-119,
\* 210-217, 256-270)
StartReadInit ==
  /\ hpc = "init_sent"
  /\ canRead
  /\ LET sent    == readResult(out)
         initId  == wire[Len(wire)].id
         wasRead == Append(wire, Entry(gen, "read", initId, "initialize",
                                       "start", goodLine(out, FALSE)))
         listId  == nextRequestID(requestID)
     IN  /\ out' = afterRead(out)
         /\ IF sent.err # <<>>
              THEN /\ child' = stop(child)
                   /\ pending' = pendingOf(child', pending)
                   /\ hpc' = "idle"
                   /\ ctx' = "none"
                   /\ runs' = [runs EXCEPT ![gen].outcome = "start_error"]
                   /\ wire' = wasRead
                   /\ UNCHANGED requestID
            ELSE IF child # "running"
              THEN /\ child' = stop(child)
                   /\ pending' = pendingOf(child', pending)
                   /\ hpc' = "idle"
                   /\ ctx' = "none"
                   /\ runs' = [runs EXCEPT ![gen].outcome = "start_error"]
                   /\ wire' = Append(wasRead, Entry(gen, "write", listId,
                                       "tools/list", "start", FALSE))
                   /\ requestID' = listId
            ELSE   /\ requestID' = listId
                   /\ wire' = Append(wasRead, Entry(gen, "write", listId,
                                       "tools/list", "start", TRUE))
                   /\ pending' = Append(pending,
                                   [id |-> listId, method |-> "tools/list"])
                   /\ hpc' = "list_sent"
                   /\ UNCHANGED <<child, ctx, runs>>
  /\ UNCHANGED <<perms, chk, workflowVars, env, rt, mu, callers>>

\* Start from the read of the tools/list response on (client.go:121-127,
\* 217-240, 256-270)
StartReadList ==
  /\ hpc = "list_sent"
  /\ canRead
  /\ LET sent   == readResult(out)
         listId == wire[Len(wire)].id
         loaded == toolsLoaded(sent)
     IN  /\ out' = afterRead(out)
         /\ wire' = Append(wire, Entry(gen, "read", listId, "tools/list",
                                       "start", goodLine(out, TRUE)))
         /\ IF loaded
              THEN /\ hpc' = "serving"
                   /\ UNCHANGED <<child, pending, ctx, runs>>
            ELSE   /\ child' = stop(child)
                   /\ pending' = pendingOf(child', pending)
                   /\ hpc' = "idle"
                   /\ ctx' = "none"
                   /\ runs' = [runs EXCEPT ![gen].outcome = "start_error"]
  /\ UNCHANGED <<perms, chk, workflowVars, env, rt, requestID, mu, callers>>

\* CallTool of goroutine c from c.mu.Lock() up to the write of its request
\* (client.go:147-161, 244-253); when the write fails it returns the error
\* and the deferred Unlock runs
callSend(c) ==
  /\ hpc = "serving"
  /\ callers[c].pc = "idle"
  /\ muFree(mu)
  /\ requestID < MaxRequestID
  /\ requestID' = nextRequestID(requestID)
  /\ wire' = Append(wire, Entry(gen, "write", requestID', "tools/call", c,
                                child = "running"))
  /\ IF child = "running"
       THEN /\ mu' = c
            /\ pending' = Append(pending,
                            [id |-> requestID', method |-> "tools/call"])
            /\ callers' = [callers EXCEPT
                 ![c] = [pc |-> "sent", id |-> requestID', ret |-> ""]]
     ELSE   /\ mu' = mu
            /\ pending' = pending
            /\ callers' = [callers EXCEPT
                 ![c] = [pc |-> "idle", id |-> requestID', ret |-> "error"]]
  /\ UNCHANGED <<perms, chk, workflowVars, env, rt>>
  /\ UNCHANGED <<child, ctx, hpc, runs, out>>

\* CallTool of goroutine c from the read of the response line to its return
\* and the deferred Unlock (client.go:149, 161-186, 256-270)
callReturn(c) ==
  /\ callers[c].pc = "sent"
  /\ canRead
  /\ LET returned == toolResult(readResult(out))
     IN  /\ callers' = [callers EXCEPT ![c].pc = "idle",
                                       ![c].ret = retKind(returned)]
         /\ wire' = Append(wire, Entry(gen, "read", callers[c].id,
                                       "tools/call", c, returned.err = <<>>))
  /\ out' = afterRead(out)
  /\ mu' = ""
  /\ UNCHANGED <<perms, chk, workflowVars, env, rt>>
  /\ UNCHANGED <<requestID, child, ctx, hpc, runs, pending>>

\* the child answers the oldest request it has read with one line
ChildRespond ==
  /\ child = "running"
  /\ pending # <<>>
  /\ \E line \in BridgeLines(Head(pending).id) : out' = Append(out, line)
  /\ pending' = Tail(pending)
  /\ UNCHANGED <<perms, chk, workflowVars, env, rt>>
  /\ UNCHANGED <<requestID, mu, child, ctx, hpc, runs, wire, callers>>

\* the child exits on its own
ChildCrash ==
  /\ child = "running"
  /\ child' = "dead"
  /\ pending' = <<>>
  /\ UNCHANGED <<perms, chk, workflowVars, env, rt>>
  /\ UNCHANGED <<requestID, mu, ctx, hpc, runs, wire, out, callers>>

\* the context of the invocation is cancelled or its deadline passes
CtxDone ==
  /\ ctx = "live"
  /\ ctx' = "done"
  /\ UNCHANGED <<perms, chk, workflowVars, env, rt>>
  /\ UNCHANGED <<requestID, mu, child, hpc, runs, wire, pending, out, callers>>

\* the goroutine os/exec started for exec.CommandContext kills the process
\* (client.go:97)
ExecKill ==
  /\ ctx = "done"
  /\ child = "running"
  /\ child' = ctxKill(child)
  /\ pending' = pendingOf(child', pending)
  /\ UNCHANGED <<perms, chk, workflowVars, env, rt>>
  /\ UNCHANGED <<requestID, mu, ctx, hpc, runs, wire, out, callers>>

\* the record loop is over, the handler returns and the deferred Stop runs
\* (main.go:250-271)
HandlerReturn ==
  /\ hpc = "serving"
  /\ \A c \in Callers : callers[c].pc = "idle"
  /\ child' = stop(child)
  /\ pending' = pendingOf(child', pending)
  /\ hpc' = "idle"
  /\ ctx' = "none"
  /\ runs' = [runs EXCEPT ![gen].outcome = "returned"]
  /\ UNCHANGED <<perms, chk, workflowVars, env, rt>>
  /\ UNCHANGED <<requestID, mu, wire, out, callers>>

NextBridge ==
  \/ StartFails
  \/ StartSpawn
  \/ StartReadInit
  \/ StartReadList
  \/ \E c \in Callers : callSend(c)
  \/ \E c \in Callers : callReturn(c)
  \/ ChildRespond
  \/ ChildCrash
  \/ CtxDone
  \/ ExecKill
  \/ HandlerReturn

SpecBridge == InitResponse /\ [][NextBridge]_vars

\* the goroutine of exec.CommandContext runs, and a ReadBytes that can return
\* returns
BridgeFairness ==
  /\ WF_vars(ExecKill)
  /\ \A c \in Callers : WF_vars(callReturn(c))

SpecBridgeLive == SpecBridge /\ BridgeFairness

\* ======================================================== SpecBridgeNoisy
\* the bridge with a child that also writes lines that answer no request

MaxUnread == 2    \* lines in the stdout pipe when the child writes another

\* a JSON-RPC notification: it decodes into an MCPResponse without id, result
\* and error (client.go:37-42, 261-264)
NotificationLine == NoResultLine(0)

\* the child writes a notification
ChildNotify ==
  /\ child = "running"
  /\ Len(out) < MaxUnread
  /\ out' = Append(out, NotificationLine)
  /\ UNCHANGED <<perms, chk, workflowVars, env, rt>>
  /\ UNCHANGED <<requestID, mu, child, ctx, hpc, runs, wire, pending, callers>>

NextBridgeNoisy ==
  \/ NextBridge
  \/ ChildNotify

SpecBridgeNoisy == InitResponse /\ [][NextBridgeNoisy]_vars

\* ================================================================ claims
\* the Check call of SpecCheck and what it was made with
CheckMade     == chk # <<>>
chkCall       == chk[1]
chkResult     == chkCall.result
chkActionCfg  == actionCfgOf(perms, chkCall.action)
chkIsAdmin    == isAdmin(perms, chkCall.lookup, chkCall.userID)
chkOffChannel == Len(perms.Channels) > 0
                   /\ ~contains(perms.Channels, chkCall.channelID)
chkDenied     == ~chkResult.Allowed /\ ~chkResult.NeedsApproval
chkAllowed    == chkResult.Allowed /\ ~chkResult.NeedsApproval
chkPending    == chkResult.Allowed /\ chkResult.NeedsApproval

\* C8: with a non-empty channel allow-list, a call from a channel outside it
\* is denied (Allowed = false, NeedsApproval = false) for every user, action
\* name and amount.
C8_OffChannelDenied ==
  (CheckMade /\ chkOffChannel) => chkDenied

\* an admin asks for a read action from a channel outside the allow-list
C8_Witness ==
  /\ CheckMade
  /\ chkOffChannel
  /\ chkIsAdmin
  /\ chkCall.action = "get_payment_status"
  /\ chkDenied

\* the policy C9 is about: admin level, approval required, threshold t > 0
chkThresholdPolicy ==
  /\ chkActionCfg.Level = "admin"
  /\ chkActionCfg.Approve
  /\ chkActionCfg.MaxAmount > 0

\* what C9 says of the verdict at the threshold and one cent above it
chkBoundaryVerdict ==
  /\ chkCall.amount = chkActionCfg.MaxAmount => chkAllowed
  /\ chkCall.amount = chkActionCfg.MaxAmount + 1 => chkPending

chkZeroThresholdVerdict ==
  /\ (chkActionCfg.Level = "admin" /\ chkActionCfg.Approve
        /\ chkActionCfg.MaxAmount = 0) => chkPending
  /\ ~chkActionCfg.Approve => ~chkResult.NeedsApproval

\* C10 as stated: for an admin, an admin-level policy with approval and
\* maxAmount = 0 requires approval for every amount, whatever the channel; a
\* policy without approval never requires it.
C10_Original ==
  (CheckMade /\ chkIsAdmin) => chkZeroThresholdVerdict

\* C10 as amended: the same, for a call that passes the channel restriction.
C10_ZeroThreshold ==
  (CheckMade /\ ~chkOffChannel /\ chkIsAdmin) => chkZeroThresholdVerdict

\* an admin asks for amount 0 under a policy with approval and maxAmount 0
C10_Witness ==
  /\ CheckMade
  /\ ~chkOffChannel
  /\ chkIsAdmin
  /\ chkActionCfg.Level = "admin"
  /\ chkActionCfg.Approve
  /\ chkActionCfg.MaxAmount = 0
  /\ chkCall.amount = 0
  /\ chkPending

\* the elements of a list
Range(seq) == {seq[i] : i \in DOMAIN seq}

\* every user the admin check recognises with the directory's answers of the
\* call: the listed users and the members of the configured groups
chkAdmins == {u \in UserIDs : isAdmin(perms, chkCall.lookup, u)}

\* C12: when Check returns a verdict that requires approval, its approver list
\* is exactly the set of all admins, by user ID and by group membership alike,
\* except the requesting user, and never contains the requester.
C12_ApproversAllOtherAdmins ==
  (CheckMade /\ chkPending) =>
    /\ Range(chkResult.Approvers) = chkAdmins \ {chkCall.userID}
    /\ chkCall.userID \notin Range(chkResult.Approvers)

\* the action name of the call is not a key of the classifier map
chkUnknown == chkCall.action \notin DOMAIN ActionType

\* the verdict of the same call for a name the classifier maps to read
chkResultAsRead ==
  Check(perms, chkCall.lookup, chkCall.userID, chkCall.channelID,
        "get_payment_status", chkCall.amount)

\* the read policy of the configuration, the open policy when it has none
chkReadPolicy ==
  IF "read" \in DOMAIN perms.Actions THEN perms.Actions["read"]
  ELSE Action("any", FALSE, 0)

\* C13: an action name that is not in the classifier map is evaluated under
\* the read category's policy, never under the refund, cancel or create policy:
\* its verdict is the verdict of a read action for the same user, channel and
\* amount; under the default policies an unknown name from an allowed channel
\* is Allowed for any user.
C13_UnknownIsRead ==
  (CheckMade /\ chkUnknown) =>
    /\ chkActionCfg = chkReadPolicy
    /\ chkResult = chkResultAsRead
    /\ (perms.Actions = DefaultActions /\ ~chkOffChannel) => chkAllowed

\* a user who is no admin calls an unknown name under the default policies,
\* where refund, cancel and create are for admins
C13_Witness ==
  /\ CheckMade
  /\ chkUnknown
  /\ ~chkOffChannel
  /\ perms.Actions = DefaultActions
  /\ ~chkIsAdmin
  /\ chkAllowed

\* the answer of the directory for the i-th configured group during the call
chkAnswer(i) == chkCall.lookup[perms.Groups[i]]
chkFailedAt(i) == chkAnswer(i).err
chkListedAt(i) == ~chkAnswer(i).err /\ chkCall.userID \in chkAnswer(i).members

\* the groups the admin check of the call queries, in order
chkQueried == groupsQueried(perms.Groups, chkCall.lookup, chkCall.userID, 1)

\* C14: for a user outside the admin user list, isAdmin is true exactly when
\* some configured group answers with a list that holds the user, whatever
\* lookups failed before it; a failed lookup alone never makes it true, and
\* every group after a failed lookup is still queried, up to the first group
\* that lists the user.
C14_FailedLookupIsNotMember ==
  (CheckMade /\ ~contains(perms.Users, chkCall.userID)) =>
    /\ chkIsAdmin <=> \E i \in 1..Len(perms.Groups) : chkListedAt(i)
    /\ \A i \in 1..Len(perms.Groups) : \A k \in i..Len(perms.Groups) :
         (chkFailedAt(i) /\ \A l \in 1..(k - 1) : ~chkListedAt(l))
           => contains(chkQueried, perms.Groups[k])

\* the lookup of the first group fails, the second group lists the user, and
\* the user passes the admin check of an admin-level action
C14_Witness ==
  /\ CheckMade
  /\ perms.Groups = <<"G1", "G2">>
  /\ ~contains(perms.Users, chkCall.userID)
  /\ chkFailedAt(1)
  /\ chkListedAt(2)
  /\ chkQueried = <<"G1", "G2">>
  /\ chkIsAdmin
  /\ ~chkOffChannel
  /\ chkActionCfg.Level = "admin"
  /\ chkResult.Allowed

\* the three verdicts, spelled on the fields of the Result
chkVerdicts ==
  { v \in {"denied", "allowed", "pending"} :
      \/ /\ v = "denied"
         /\ ~chkResult.Allowed
         /\ ~chkResult.NeedsApproval
         /\ chkResult.Reason # ""
         /\ chkResult.Approvers = <<>>
      \/ /\ v = "allowed"
         /\ chkResult.Allowed
         /\ ~chkResult.NeedsApproval
      \/ /\ v = "pending"
         /\ chkResult.Allowed
         /\ chkResult.NeedsApproval }

\* C15: every Check call returns exactly one of the three verdicts Denied
\* (not allowed, no approval, a non-empty reason, no approvers), Allowed
\* (allowed, no approval) and pending approval (allowed, approval needed);
\* NeedsApproval = true never comes with Allowed = false.
C15_OneVerdict ==
  CheckMade =>
    /\ Cardinality(chkVerdicts) = 1
    /\ ~(chkResult.NeedsApproval /\ ~chkResult.Allowed)

\* a call denied by the admin check: a reason, no approvers
C15_Witness ==
  /\ CheckMade
  /\ ~chkOffChannel
  /\ chkActionCfg.Level = "admin"
  /\ ~chkIsAdmin
  /\ chkVerdicts = {"denied"}
  /\ chkResult.Reason = ReasonAdmin

\* ------------------------------------------------------------- workflow
Messages  == Started("message")
Reactions == Started("reaction")

\* the message invocations whose verdict required approval
NeedsApprovalMsgs ==
  {m \in Messages : inv[m].perm # <<>> /\ inv[m].perm[1].NeedsApproval}

\* the prompts RequestApproval has stored a request for, and by whom
Created     == {inv[m].ts : m \in {k \in Messages : inv[k].outcome = "pending"}}
CreatorOf(id) == CHOOSE m \in Messages : inv[m].outcome = "pending" /\ inv[m].ts = id

\* the reaction invocations on prompt id whose HandleReaction has returned
ReturnedOn(id) ==
  {j \in Reactions : inv[j].ts = id /\ inv[j].pc # "fetched"}

ApprovedBy(id) == {j \in ReturnedOn(id) : inv[j].decision = "approved"}
RejectedBy(id) == {j \in ReturnedOn(id) : inv[j].decision = "rejected"}
ExpiredBy(id)  == {j \in ReturnedOn(id) : inv[j].outcome = "expired"}

\* the CallTool calls made for the request of prompt id
CallsFor(id) == {k \in DOMAIN toolLog : toolLog[k].req = id}
CallsBy(i)   == {k \in DOMAIN toolLog : toolLog[k].by = i}

\* HandleReaction returned (nil, "", nil)
NoOp(j) == inv[j].req = <<>> /\ inv[j].decision = "" /\ inv[j].err = ""

\* the step is handleMessage for an event whose verdict requires approval
ApprovalRequested ==
  /\ Len(inv') = Len(inv) + 1
  /\ inv'[Len(inv')].kind = "message"
  /\ inv'[Len(inv')].perm # <<>>
  /\ inv'[Len(inv')].perm[1].NeedsApproval

\* what handleMessage does then: a request for the tool call is in the table
\* under a new key, and no tool was called
C1_RequestStep ==
  ApprovalRequested =>
    LET m == inv'[Len(inv')] IN
    /\ m.ts \notin DOMAIN table
    /\ m.ts \in DOMAIN table'
    /\ get(table', m.ts)[1].Action = m.call[1].name
    /\ get(table', m.ts)[1].Params = m.call[1].args
    /\ toolLog' = toolLog
    /\ m.pc = "done"

\* no tool call is made by a message invocation whose verdict required
\* approval, and a call for a stored request is made by a reaction invocation
\* whose HandleReaction returned "approved" with that request
C1_CallsOnlyAfterApproval ==
  /\ \A m \in NeedsApprovalMsgs : CallsBy(m) = {}
  /\ \A k \in DOMAIN toolLog :
       LET e == toolLog[k] IN
       /\ inv[e.by].kind = "message" => e.req = 0
       /\ inv[e.by].kind = "reaction" =>
            /\ e.req \in Created
            /\ e.by \in ApprovedBy(e.req)
            /\ inv[e.by].req # <<>>
            /\ e.name = inv[CreatorOf(e.req)].call[1].name
            /\ e.arguments = inv[CreatorOf(e.req)].call[1].args

\* C1: a message event whose verdict requires approval makes handleMessage
\* persist an approval request and return without calling the tool; the tool
\* of that request is called only by handleReaction, after HandleReaction
\* returned "approved" for the stored request.
C1_ApprovalGate ==
  [](C1_CallsOnlyAfterApproval) /\ [][C1_RequestStep]_vars

\* a request was created by a message, approved by a reaction, and executed
C1_Witness ==
  \E m \in NeedsApprovalMsgs, j \in Reactions :
    /\ inv[m].outcome = "pending"
    /\ j \in ApprovedBy(inv[m].ts)
    /\ CallsBy(j) # {}
    /\ CallsBy(m) = {}

\* C2: of two HandleReaction calls racing on the same pending request, both
\* from eligible approvers and before expiry, exactly one returns a request
\* with a decision: no request ID has two calls that returned a decision.
C2_ExactlyOneDecision ==
  \A id \in Created :
    Cardinality(ApprovedBy(id) \cup RejectedBy(id)) <= 1

\* C3: whatever the interleaving of the reaction events for its message, the
\* processor calls the tool for an approval request at most once.
C3_AtMostOneExecution ==
  \A id \in Created : Cardinality(CallsFor(id)) <= 1

\* a call that started after a decision for its ID returned the no-op and
\* never held a record
C4_NoOpAfterDecision ==
  \A j \in Reactions :
    inv[j].afterDecision =>
      /\ inv[j].pc = "done"
      /\ inv[j].fetched = <<>>
      /\ NoOp(j)

\* a step of (or starting) an invocation that started after a decision
\* leaves the table as it is
C4_StoreUntouched ==
  (\E j \in DOMAIN inv' :
      /\ inv'[j].kind = "reaction"
      /\ inv'[j].afterDecision
      /\ (j \notin DOMAIN inv \/ inv[j] # inv'[j]))
    => table' = table

\* C4: once a HandleReaction call has returned a decision for a request ID,
\* every HandleReaction call that starts afterwards with that ID returns
\* (nil, "", nil) and leaves the store unchanged.
C4_ResolvedStaysResolved ==
  [](C4_NoOpAfterDecision) /\ [][C4_StoreUntouched]_vars

\* an approver's reaction that started after the request was decided
C4_Witness ==
  \E j \in Reactions :
    /\ inv[j].afterDecision
    /\ isApprove(inv[j].reaction)
    /\ inv[j].ts \in Created
    /\ contains(inv[CreatorOf(inv[j].ts)].perm[1].Approvers, inv[j].user)
    /\ inv[j].outcome = "not_found"

\* reaction j is approve-like, from a listed approver of the request that
\* message m persisted, and HandleReaction returned later than 15 minutes
\* after the persist
LateApprove(m, j) ==
  /\ inv[m].outcome = "pending"
  /\ inv[j].ts = inv[m].ts
  /\ inv[j].pc # "fetched"
  /\ isApprove(inv[j].reaction)
  /\ contains(inv[m].perm[1].Approvers, inv[j].user)
  /\ inv[j].returnedAt > inv[m].requestedAt + ApprovalTTL

\* the expiry outcome: an expiry error, no request, no decision, the record
\* gone, no tool call
ExpiryOutcome(j) ==
  /\ inv[j].err = "approval request has expired"
  /\ inv[j].req = <<>>
  /\ inv[j].decision = ""
  /\ inv[j].ts \notin DOMAIN table
  /\ CallsBy(j) = {}

\* C5 as stated: an approve-like reaction from a listed approver handled
\* later than t0 + 15 minutes gets the expiry outcome, whether or not the
\* record is still in the store.
C5_Original ==
  \A m \in Messages, j \in Reactions : LateApprove(m, j) => ExpiryOutcome(j)

\* C5 as amended: the same, for a reaction whose fetch found the record.
C5_ExpiredOnLateApprove ==
  \A m \in Messages, j \in Reactions :
    (LateApprove(m, j) /\ inv[j].fetched # <<>>) => ExpiryOutcome(j)

\* an approver approves a request 16 minutes after it was persisted
C5_Witness ==
  \E m \in Messages, j \in Reactions :
    /\ LateApprove(m, j)
    /\ inv[j].fetched # <<>>
    /\ inv[j].returnedAt = inv[m].requestedAt + ApprovalTTL + 1
    /\ inv[j].outcome = "expired"

\* the expiry instant of the request of prompt id
ExpiryOf(id) == inv[CreatorOf(id)].requestedAt + ApprovalTTL

Resolved == {id \in Created : ApprovedBy(id) \cup RejectedBy(id) # {}}
Reaped   == {id \in Created : ExpiredBy(id) # {}}

C7_ExactlyOneState ==
  \A id \in Created :
    Cardinality({s \in {"approved", "rejected", "expired", "pending"} :
                   \/ s = "approved" /\ ApprovedBy(id) # {}
                   \/ s = "rejected" /\ RejectedBy(id) # {}
                   \/ s = "expired"  /\ ExpiredBy(id) # {}
                   \/ s = "pending"  /\ id \in DOMAIN table}) = 1

\* the step starts a message invocation, and the invocation it starts
MessageStarted == Len(inv') = Len(inv) + 1 /\ inv'[Len(inv')].kind = "message"
ReactionStarted == Len(inv') = Len(inv) + 1 /\ inv'[Len(inv')].kind = "reaction"
StartedInv == inv'[Len(inv')]

\* invocation m ran Check for a user who is neither in the admin user list
\* nor, by the directory's answers, a member of a configured admin group, on an
\* action whose category has level admin
NonAdminOnAdminAction(m) ==
  /\ m.kind = "message"
  /\ m.perm # <<>>
  /\ ~contains(perms.Users, m.user)
  /\ m.lookup # <<>>
  /\ \A i \in 1..Len(perms.Groups) :
       m.user \notin m.lookup[1][perms.Groups[i]].members
  /\ actionCfgOf(perms, m.call[1].name).Level = "admin"

\* the verdict is Denied with the admin-required reason, no prompt was posted
\* and the handler is done
AdminDenied(m) ==
  /\ ~m.perm[1].Allowed
  /\ ~m.perm[1].NeedsApproval
  /\ m.perm[1].Reason = ReasonAdmin
  /\ m.outcome = "denied"
  /\ m.pc = "done"
  /\ m.ts = 0

\* C11 as stated: for a user who is not in the admin user list and not a
\* member of any configured admin group, Check on an action whose category has
\* level admin returns Denied with the admin-required reason, whatever the
\* channel, and the invocation calls no tool.
C11_Original ==
  \A m \in Messages :
    NonAdminOnAdminAction(inv[m]) => (AdminDenied(inv[m]) /\ CallsBy(m) = {})

\* the same for a call that passes the channel restriction
C11_DeniedWithAdminReason ==
  \A m \in Messages :
    (NonAdminOnAdminAction(inv[m]) /\ ~channelDenied(perms, inv[m].channel))
      => (AdminDenied(inv[m]) /\ CallsBy(m) = {})

\* the handleMessage step of such a call creates no approval request and
\* calls no tool
C11_DeniedStep ==
  (MessageStarted /\ NonAdminOnAdminAction(StartedInv)
     /\ ~channelDenied(perms, StartedInv.channel))
    => (table' = table /\ nextTs' = nextTs /\ toolLog' = toolLog)

\* C11 as amended: for a user who is not in the admin user list and not a
\* member of any configured admin group, Check on an action whose category has
\* level admin, from a channel that passes the channel restriction, returns
\* Denied with the admin-required reason, for every amount; no approval
\* request is created and no tool is called.
C11_AdminRequired ==
  [](C11_DeniedWithAdminReason) /\ [][C11_DeniedStep]_vars

\* a user outside the list, whose group lookup failed, asks for a refund from
\* an allowed channel and is denied
C11_Witness ==
  \E m \in Messages :
    /\ NonAdminOnAdminAction(inv[m])
    /\ ~channelDenied(perms, inv[m].channel)
    /\ inv[m].lookup[1][perms.Groups[1]].err
    /\ inv[m].call[1].name = "refund_payment"
    /\ AdminDenied(inv[m])
    /\ table = <<>>
    /\ toolLog = <<>>

\* reaction r reached the approver test of HandleReaction, on a record that
\* was not expired then, with a user outside the record's approver list
NonApproverReaction(r) ==
  /\ r.kind = "reaction"
  /\ r.pc # "fetched"
  /\ r.fetched # <<>>
  /\ r.returnedAt <= r.fetched[1].ExpiresAt
  /\ ~contains(r.fetched[1].Approvers, r.user)

\* such a call returns (nil, "", nil) and its invocation calls no tool
C16_NonApproverNoOp ==
  \A j \in Reactions :
    NonApproverReaction(inv[j]) =>
      /\ NoOp(j)
      /\ inv[j].pc = "done"
      /\ CallsBy(j) = {}

\* the step in which such a call returns leaves the table as it is
C16_RecordLeft ==
  \A j \in DOMAIN inv :
    (inv[j].pc = "fetched" /\ inv'[j].pc # "fetched"
       /\ NonApproverReaction(inv'[j]))
      => table' = table

\* C16: HandleReaction called by a user who is not in the stored approver list
\* of a pending, unexpired request, the original requester included, returns
\* the no-op result and leaves the record in the store unchanged, so a later
\* reaction from a listed approver can still resolve it.
C16_NonApproverIgnored ==
  [](C16_NonApproverNoOp) /\ [][C16_RecordLeft]_vars

\* the requester approves the own request and is ignored; a listed approver
\* approves it later
C16_Witness ==
  \E id \in Created : \E j, k \in Reactions :
    /\ inv[j].ts = id
    /\ inv[j].user = inv[CreatorOf(id)].user
    /\ isApprove(inv[j].reaction)
    /\ NonApproverReaction(inv[j])
    /\ NoOp(j)
    /\ k \in ApprovedBy(id)
    /\ inv[k].returnedAt > inv[j].returnedAt

\* the names HandleReaction handles, after the colons are stripped
ApproveNames == {<<"white_check_mark">>, <<"+1">>, <<"heavy_check_mark">>}
RejectNames  == {<<"x">>, <<"-1">>, <<"no_entry">>}

\* the reaction name of r is neither approve-like nor reject-like
OtherReaction(r) ==
  /\ r.kind = "reaction"
  /\ normalize(r.reaction) \notin ApproveNames \cup RejectNames

\* such a call returns (nil, "", nil) at once, having fetched nothing
C17_OtherNoOp ==
  \A j \in Reactions :
    OtherReaction(inv[j]) =>
      /\ NoOp(j)
      /\ inv[j].outcome = "irrelevant"
      /\ inv[j].pc = "done"
      /\ inv[j].fetched = <<>>
      /\ CallsBy(j) = {}

\* the step that starts such a call leaves the table as it is
C17_StoreLeft ==
  (ReactionStarted /\ OtherReaction(StartedInv)) => table' = table

\* C17: HandleReaction with a reaction name that, after stripping one leading
\* and one trailing colon, is neither in {white_check_mark, +1,
\* heavy_check_mark} nor in {x, -1, no_entry} returns (nil, "", nil) without
\* reading or deleting any store record, even when the target request is
\* expired.
C17_OtherReactionIgnored ==
  [](C17_OtherNoOp) /\ [][C17_StoreLeft]_vars

\* another reaction on an expired request that is still stored leaves it there
C17_Witness ==
  \E id \in Created : \E j \in Reactions :
    /\ inv[j].ts = id
    /\ OtherReaction(inv[j])
    /\ inv[j].returnedAt > ExpiryOf(id)
    /\ id \in DOMAIN table
    /\ NoOp(j)

\* the message invocations whose RequestApproval returned an error
FailedApprovals == {m \in Messages : inv[m].outcome = "approval_error"}
PostFailed(m)  == m.err = "failed to post approval message"
StoreFailed(m) == m.err = "failed to store approval"

\* a failed RequestApproval has returned an error; after a failed post no
\* prompt exists; after a failed persist the posted prompt has no record and
\* every HandleReaction call on it is a no-op that fetched nothing
C18_NoRecordAfterFailure ==
  \A m \in FailedApprovals :
    /\ PostFailed(inv[m]) \/ StoreFailed(inv[m])
    /\ CallsBy(m) = {}
    /\ PostFailed(inv[m]) => inv[m].ts = 0
    /\ StoreFailed(inv[m]) =>
         /\ inv[m].ts \in PromptIDs
         /\ inv[m].ts \notin DOMAIN table
         /\ \A j \in Reactions :
              inv[j].ts = inv[m].ts =>
                (NoOp(j) /\ inv[j].pc = "done" /\ inv[j].fetched = <<>>)

\* the step of a failed RequestApproval writes no record; a failed post posts
\* no prompt, a failed persist leaves the posted prompt without a record
C18_FailureStep ==
  (MessageStarted /\ StartedInv.outcome = "approval_error") =>
    /\ table' = table
    /\ toolLog' = toolLog
    /\ PostFailed(StartedInv) => nextTs' = nextTs
    /\ StoreFailed(StartedInv) =>
         (StartedInv.ts = nextTs /\ nextTs' = nextTs + 1)

\* C18: RequestApproval returns an error when posting the prompt fails and
\* when persisting the record fails; when the post fails no record is written
\* to the store, and when the persist fails no record exists for the posted
\* prompt, so reactions to that prompt are no-ops.
C18_FailuresPropagate ==
  [](C18_NoRecordAfterFailure) /\ [][C18_FailureStep]_vars

\* the persist failed, and a listed approver's approve reaction on the posted
\* prompt found nothing
C18_Witness ==
  \E m \in FailedApprovals : \E j \in Reactions :
    /\ StoreFailed(inv[m])
    /\ inv[j].ts = inv[m].ts
    /\ isApprove(inv[j].reaction)
    /\ contains(inv[m].perm[1].Approvers, inv[j].user)
    /\ inv[j].outcome = "not_found"
    /\ NoOp(j)

\* the step is a RequestApproval that returned nil
ApprovalStored == MessageStarted /\ StartedInv.outcome = "pending"

\* what the step of a successful RequestApproval does to the table
C19_RecordStep ==
  ApprovalStored =>
    LET m  == StartedInv
        id == m.ts
    IN  /\ id = nextTs
        /\ id \notin DOMAIN table
        /\ DOMAIN table' = DOMAIN table \cup {id}
        /\ \A k \in DOMAIN table : table'[k] = table[k]
        /\ table'[id].pk = id
        /\ table'[id].expiresAt = now + ApprovalTTL
        /\ get(table', id) =
             << Request(id, m.channel, m.thread, m.user, m.call[1].name,
                        m.call[1].args, extractAmount(m.call[1].args),
                        now + ApprovalTTL, m.perm[1].Approvers) >>

\* C19: after a successful RequestApproval the store holds exactly one new
\* record, whose key is the timestamp of the posted prompt, whose expiry is the
\* time of the call plus 15 minutes, and whose channel, thread, requester,
\* action, params, amount and approvers are the arguments of the call; the
\* other records are as they were.
C19_StoredRecord == [][C19_RecordStep]_vars

\* a request made a minute after the start, in a thread, is stored with its
\* expiry 15 minutes later
C19_Witness ==
  \E m \in Messages :
    /\ inv[m].outcome = "pending"
    /\ inv[m].requestedAt = 1
    /\ inv[m].thread = "t0"
    /\ inv[m].ts \in DOMAIN table
    /\ get(table, inv[m].ts)[1].ExpiresAt = 1 + ApprovalTTL
    /\ get(table, inv[m].ts)[1].ThreadTs = "t0"
    /\ get(table, inv[m].ts)[1].RequestedBy = inv[m].user

\* C20: when HandleReaction returns the decision "rejected" for a request, the
\* processor never calls CallTool for that request; when Check returns Denied,
\* the processor never calls CallTool and never creates an approval request
\* for that tool call.
C20_NoCallAfterRejectOrDeny ==
  /\ \A id \in Created : RejectedBy(id) # {} => CallsFor(id) = {}
  /\ \A m \in Messages :
       (inv[m].perm # <<>> /\ ~inv[m].perm[1].Allowed) =>
         /\ CallsBy(m) = {}
         /\ inv[m].outcome = "denied"
         /\ inv[m].ts = 0

\* C29: a malformed permission policy JSON is fatal at process startup: the
\* process evaluates no request when the supplied document does not decode,
\* and never evaluates one under a policy other than the supplied one.
C29_MalformedPolicyIsFatal ==
  /\ env.kind = "malformed" => ~CheckMade
  /\ (CheckMade /\ env.kind = "json") => perms = env.value

\* reaction r fetched a record and reached the expiry test after the record's
\* expiry, from a user outside the record's approver list
ExpiredForNonApprover(r) ==
  /\ r.kind = "reaction"
  /\ r.pc # "fetched"
  /\ r.fetched # <<>>
  /\ r.returnedAt > r.fetched[1].ExpiresAt
  /\ ~contains(r.fetched[1].Approvers, r.user)

\* reaction r is approve-like or reject-like and its fetch found no record
MissingRecord(r) ==
  /\ r.kind = "reaction"
  /\ normalize(r.reaction) \in ApproveNames \cup RejectNames
  /\ r.fetched = <<>>

\* the first returns the expiry error, the second the no-op with a nil error
C30_ExpiredOrNotFound ==
  \A j \in Reactions :
    /\ ExpiredForNonApprover(inv[j]) =>
         /\ inv[j].err = "approval request has expired"
         /\ inv[j].req = <<>>
         /\ inv[j].decision = ""
         /\ CallsBy(j) = {}
    /\ MissingRecord(inv[j]) =>
         /\ NoOp(j)
         /\ inv[j].err # "approval request has expired"
         /\ inv[j].pc = "done"

\* the step in which the call on the expired record returns deletes the
\* record; the call on a missing record leaves the table as it is
C30_ExpiredDeleted ==
  /\ \A j \in DOMAIN inv :
       (inv[j].pc = "fetched" /\ inv'[j].pc # "fetched"
          /\ ExpiredForNonApprover(inv'[j]))
         => inv[j].ts \notin DOMAIN table'
  /\ (ReactionStarted /\ MissingRecord(StartedInv)) => table' = table

\* C30: HandleReaction checks expiry before it checks the approver list: an
\* approve-like or reject-like reaction on an expired record from a user who
\* is not a listed approver deletes the record and returns the expiry error,
\* whereas the same reaction on a missing record returns the no-op with a nil
\* error, so expired and not-found are distinguishable outcomes.
C30_ExpiryBeforeApprovers ==
  [](C30_ExpiredOrNotFound) /\ [][C30_ExpiredDeleted]_vars

\* the requester rejects the own request after its expiry and gets the expiry
\* error; the same reaction again finds nothing
C30_Witness ==
  \E id \in Created : \E j, k \in Reactions :
    /\ inv[j].ts = id
    /\ inv[j].user = inv[CreatorOf(id)].user
    /\ isReject(inv[j].reaction)
    /\ ExpiredForNonApprover(inv[j])
    /\ inv[j].outcome = "expired"
    /\ id \notin DOMAIN table
    /\ inv[k].ts = id
    /\ inv[k].user = inv[j].user
    /\ inv[k].reaction = inv[j].reaction
    /\ MissingRecord(inv[k])
    /\ inv[k].outcome = "not_found"

\* ------------------------------------------------- the round trip (C23..C25)
RoundTripMade == rt # <<>>

\* the response of the round trip: it decoded, and what it carries
rtResp   == rt[1].line.resp
rtResult == rtResp.Result.value

\* the texts of the blocks of type text, in the order of the blocks
TextsOf(content) ==
  LET textual == SelectSeq(content, LAMBDA b : b.Type = "text")
  IN  [i \in DOMAIN textual |-> textual[i].Text]

\* the texts of a sequence joined, from the left
RECURSIVE Joined(_)
Joined(texts) ==
  IF texts = <<>> THEN <<>> ELSE Head(texts) \o Joined(Tail(texts))

\* the response carries the id of the request, no error and a result that is
\* not flagged as an error
SuccessResponse ==
  /\ RoundTripMade
  /\ rt[1].line.parses
  /\ rt[1].request.Method = "tools/call"
  /\ rtResp.ID = rt[1].request.ID
  /\ rtResp.Error = <<>>
  /\ rtResp.Result.decodes
  /\ ~rtResult.IsError

\* C23: for a tools/call request built from (name, arguments) and a response
\* line that carries the matching id, no error, and a result that is not
\* flagged as an error, CallTool returns with no error the concatenation, in
\* order, of the text of every content block of type text; with a single text
\* block it returns exactly that text.
C23_TextRoundTrip ==
  SuccessResponse =>
    /\ rt[1].ret.err = <<>>
    /\ rt[1].ret.text = Joined(TextsOf(rtResult.Content))
    /\ Len(TextsOf(rtResult.Content)) = 1
         => rt[1].ret.text = TextsOf(rtResult.Content)[1]

\* a result with two different text blocks returns them joined in their order
C23_Witness ==
  /\ SuccessResponse
  /\ rt[1].request.Params.Name = "refund_payment"
  /\ rtResult.Content = <<ContentBlock("text", <<"a">>),
                          ContentBlock("text", <<"b">>)>>
  /\ rt[1].ret = Returned(<<"a", "b">>, <<>>)

\* the response carries a top-level error object
ErrorResponse ==
  /\ RoundTripMade
  /\ rt[1].line.parses
  /\ rtResp.Error # <<>>

\* the response carries no error object and a result flagged as an error
ToolErrorResponse ==
  /\ RoundTripMade
  /\ rt[1].line.parses
  /\ rtResp.Error = <<>>
  /\ rtResp.Result.decodes
  /\ rtResult.IsError

\* C24: a response carrying a top-level error object makes CallTool return an
\* error that includes the error's code and message and no result text; the
\* outcome is distinguishable from a tool error (the two messages begin
\* differently), and it is returned to the caller rather than swallowed.
C24_ProtocolErrorSurfaced ==
  /\ ErrorResponse =>
       /\ rt[1].ret.text = <<>>
       /\ rt[1].ret.err # <<>>
       /\ rt[1].ret.err = <<"MCP error ", rtResp.Error[1].Code, ": ",
                            rtResp.Error[1].Message>>
  /\ ToolErrorResponse =>
       /\ rt[1].ret.err # <<>>
       /\ rt[1].ret.err[1] \in {"tool error: ", "tool execution failed"}
       /\ rt[1].ret.err[1] # "MCP error "

\* the error object comes together with a result that would have been a
\* success
C24_Witness ==
  /\ ErrorResponse
  /\ rtResp.Error = <<MCPError(2, "n")>>
  /\ rtResp.Result.decodes
  /\ ~rtResult.IsError
  /\ rtResult.Content = <<ContentBlock("text", <<"a">>)>>
  /\ rt[1].ret = Returned(<<>>, <<"MCP error ", 2, ": ", "n">>)

\* C25: a response whose result is flagged as an application-level failure
\* makes CallTool return an error, and no text, whose message is the text of
\* the result's first textual content block.
C25_ToolErrorFirstText ==
  ToolErrorResponse =>
    /\ rt[1].ret.text = <<>>
    /\ rt[1].ret.err # <<>>
    /\ TextsOf(rtResult.Content) # <<>>
         => rt[1].ret.err = <<"tool error: ">> \o TextsOf(rtResult.Content)[1]

\* ----------------------------------------------- the bridge (C21, C22, C26..C28)
\* the requests that reached a child, and the reads of a response line
Written(i) == wire[i].op = "write" /\ wire[i].ok
ReadAt(i)  == wire[i].op = "read"

\* the requests written in invocation g whose response line was not read yet
Outstanding(g) ==
  Cardinality({i \in DOMAIN wire : wire[i].gen = g /\ Written(i)})
    - Cardinality({i \in DOMAIN wire : wire[i].gen = g /\ ReadAt(i)})

\* the log has the write of goroutine c's call at i
CallWrittenBy(c, i) ==
  /\ i \in DOMAIN wire
  /\ Written(i)
  /\ wire[i].method = "tools/call"
  /\ wire[i].by = c

\* C21: on one bridge client at most one request is outstanding at any time:
\* when several callers invoke CallTool concurrently, each caller's write of
\* its request and read of one response line happen as an uninterrupted pair,
\* never interleaved with another caller's write or read.
C21_OneOutstanding ==
  /\ \A g \in DOMAIN runs : Outstanding(g) \in {0, 1}
  /\ Cardinality({c \in Callers : callers[c].pc = "sent"}) <= 1
  /\ \A i \in DOMAIN wire :
       /\ (Written(i) /\ i < Len(wire)) =>
            /\ ReadAt(i + 1)
            /\ wire[i + 1].by = wire[i].by
            /\ wire[i + 1].id = wire[i].id
            /\ wire[i + 1].gen = wire[i].gen
       /\ ReadAt(i) =>
            /\ i > 1
            /\ Written(i - 1)
            /\ wire[i - 1].by = wire[i].by
            /\ wire[i - 1].id = wire[i].id

\* goroutine a wrote its request while b's call was complete, b then called
\* while a's request was outstanding and got the lock after a's read
C21_Witness ==
  \E i, j, k \in DOMAIN wire :
    /\ i < j /\ j < k
    /\ CallWrittenBy("b", i)
    /\ CallWrittenBy("a", j)
    /\ CallWrittenBy("b", k)
    /\ wire[i].gen = wire[k].gen
    /\ callers["b"].pc = "sent"
    /\ callers["a"].ret = "ok"

\* C22: the IDs of the requests written by one bridge client are strictly
\* increasing in the order they are written to the child process, across
\* initialize, tools/list and every tools/call, including calls issued by
\* concurrent callers and across repeated Start calls on the same client.
C22_IncreasingIDs ==
  \A i, j \in DOMAIN wire :
    (i < j /\ Written(i) /\ Written(j)) => wire[i].id < wire[j].id

\* calls of both goroutines under the first child, then the handshake of a
\* second Start
C22_Witness ==
  \E i, j, k \in DOMAIN wire :
    /\ i < j /\ j < k
    /\ CallWrittenBy("a", i) /\ wire[i].gen = 1
    /\ CallWrittenBy("b", j) /\ wire[j].gen = 1
    /\ Written(k) /\ wire[k].gen = 2 /\ wire[k].method = "tools/list"

\* the response of method m was read with success in invocation g before i
SucceededBefore(m, g, i) ==
  \E k \in DOMAIN wire :
    /\ k < i
    /\ ReadAt(k) /\ wire[k].ok
    /\ wire[k].gen = g
    /\ wire[k].method = m

\* the order of the requests in the log, and what a failed Start leaves
C26_HandshakeOrder ==
  /\ \A i \in DOMAIN wire :
       /\ (wire[i].op = "write" /\ wire[i].method = "tools/list")
            => SucceededBefore("initialize", wire[i].gen, i)
       /\ (wire[i].op = "write" /\ wire[i].method = "tools/call") =>
            /\ SucceededBefore("initialize", wire[i].gen, i)
            /\ SucceededBefore("tools/list", wire[i].gen, i)
            /\ runs[wire[i].gen].outcome # "start_error"
  /\ hpc = "serving" =>
       /\ SucceededBefore("initialize", gen, Len(wire) + 1)
       /\ SucceededBefore("tools/list", gen, Len(wire) + 1)
  /\ \A c \in Callers : callers[c].pc = "sent" => hpc = "serving"

\* a step of Start that reads a failure
HandshakeFails ==
  /\ hpc \in {"init_sent", "list_sent"}
  /\ Len(wire') > Len(wire)
  /\ \E i \in DOMAIN wire' :
       i > Len(wire) /\ wire'[i].gen = gen /\ ~wire'[i].ok

\* such a step stops the child and ends the invocation with an error, and no
\* step of Start enters the record loop otherwise than by the two successes
C26_FailedStart ==
  /\ HandshakeFails =>
       /\ child' # "running"
       /\ hpc' = "idle"
       /\ runs'[gen].outcome = "start_error"
       /\ callers' = callers
  /\ (hpc # "serving" /\ hpc' = "serving") =>
       /\ hpc = "list_sent"
       /\ wire'[Len(wire')].op = "read"
       /\ wire'[Len(wire')].method = "tools/list"
       /\ wire'[Len(wire')].ok

\* C26: Start sends initialize and receives its response before it sends
\* tools/list, and no tools/call is sent before both have succeeded; if the
\* handshake or the discovery call fails, Start stops the child process,
\* returns an error, and the processor handles no record in that invocation.
C26_StartSequence == [](C26_HandshakeOrder) /\ [][C26_FailedStart]_vars

\* a first invocation whose tools/list failed after initialize had succeeded,
\* and a second one that handled a tool call
C26_Witness ==
  /\ Len(runs) = 2
  /\ runs[1] = Run(TRUE, "start_error")
  /\ \E i \in DOMAIN wire :
       /\ wire[i].gen = 1 /\ ReadAt(i)
       /\ wire[i].method = "tools/list" /\ ~wire[i].ok
  /\ \E i \in DOMAIN wire : Written(i) /\ wire[i].gen = 2
                              /\ wire[i].method = "tools/call"

\* no child runs between invocations
C27_NoChildBetweenInvocations == hpc = "idle" => child # "running"

\* a step that ends an invocation, on any path, leaves no running child
C27_ExitStep ==
  (hpc # "idle" /\ hpc' = "idle") =>
    /\ child' # "running"
    /\ runs'[gen].outcome \in {"start_error", "returned"}

\* C27: on every exit path of a processor invocation in which the child
\* process was started (normal return, a record that fails, a handshake
\* failure, cancellation of the invocation context), the child process has
\* been terminated by the time the invocation ends.
C27_ChildTerminated ==
  [](C27_NoChildBetweenInvocations) /\ [][C27_ExitStep]_vars

\* an invocation that ended in the handshake, and one that returned after a
\* tool call had failed, both with a child that had been started
C27_Witness ==
  /\ hpc = "idle"
  /\ runs = <<Run(TRUE, "start_error"), Run(TRUE, "returned")>>
  /\ child = "dead"
  /\ \E c \in Callers : callers[c].ret = "error"

\* goroutine c wrote request i and has not read a line yet
Waiting(c, i) == callers[c].pc = "sent" /\ callers[c].id = i

\* the call of goroutine c with request i has returned
ReturnedFrom(c, i) == callers[c].pc = "idle" /\ callers[c].id = i

RequestIDs == 1..MaxRequestID

C28_Returns ==
  \A c \in Callers : \A i \in RequestIDs :
    (Waiting(c, i) /\ ctx = "done") ~> ReturnedFrom(c, i)

\* a call that returns without having found a line in the pipe returns an
\* error
C28_ErrorWithoutLine ==
  \A c \in Callers :
    (callers[c].pc = "sent" /\ callers'[c].pc = "idle" /\ out = <<>>)
      => callers'[c].ret = "error"

ReachedExpiryTest(j) ==
  /\ inv[j].kind = "reaction"
  /\ inv[j].fetched # <<>>
  /\ inv[j].pc # "fetched"

\* C31: a record is treated as expired only when the current time is strictly
\* greater than its expiry instant: a reaction from a listed approver handled
\* at exactly the expiry instant still resolves the request with a decision.
C31_StrictExpiry ==
  \A j \in Reactions :
    ReachedExpiryTest(j) =>
      LET req == inv[j].fetched[1] IN
      /\ (inv[j].err = "approval request has expired")
           <=> inv[j].returnedAt > req.ExpiresAt
      /\ (inv[j].returnedAt = req.ExpiresAt /\ contains(req.Approvers, inv[j].user))
           => /\ inv[j].decision \in {"approved", "rejected"}
              /\ inv[j].req = <<req>>
              /\ inv[j].err = ""

\* an approver approves at the very instant the request expires, and the tool
\* is called
C31_Witness ==
  \E j \in Reactions :
    /\ ReachedExpiryTest(j)
    /\ inv[j].returnedAt = inv[j].fetched[1].ExpiresAt
    /\ inv[j].fetched[1].ExpiresAt = ApprovalTTL
    /\ contains(inv[j].fetched[1].Approvers, inv[j].user)
    /\ inv[j].decision = "approved"
    /\ CallsBy(j) # {}

\* the HandleReaction call of reaction j ended in a failed store call
StoreErrorOf(j) == inv[j].kind = "reaction" /\ inv[j].outcome = "store_error"

\* such a call returned an error, no request and no decision, and its
\* invocation calls no tool
C32_ErrorReturned ==
  \A j \in Reactions :
    StoreErrorOf(j) =>
      /\ inv[j].err \in {"get failed", "failed to delete approval"}
      /\ inv[j].req = <<>>
      /\ inv[j].decision = ""
      /\ inv[j].pc = "done"
      /\ CallsBy(j) = {}

\* a step in which a listed approver's call on an unexpired record returns
\* and the record stays in the table: its delete has failed
DeleteFailedStep(i) ==
  /\ inv[i].kind = "reaction"
  /\ inv[i].pc = "fetched"
  /\ inv'[i].pc # "fetched"
  /\ ~(now > inv[i].fetched[1].ExpiresAt)
  /\ contains(inv[i].fetched[1].Approvers, inv[i].user)
  /\ inv[i].ts \in DOMAIN table
  /\ inv[i].ts \in DOMAIN table'

\* a step in which a fetch fails: an approve-like or reject-like reaction
\* returns at once with something other than the no-op on a missing record
FetchFailedStep ==
  /\ ReactionStarted
  /\ StartedInv.pc = "done"
  /\ StartedInv.outcome \notin {"irrelevant", "not_found"}

C32_FailingStep ==
  /\ \A i \in DOMAIN inv :
       DeleteFailedStep(i) =>
         /\ inv'[i].err = "failed to delete approval"
         /\ inv'[i].req = <<>>
         /\ inv'[i].decision = ""
         /\ inv'[i].pc = "done"
         /\ toolLog' = toolLog
  /\ FetchFailedStep =>
         /\ StartedInv.err # ""
         /\ StartedInv.req = <<>>
         /\ StartedInv.decision = ""
         /\ toolLog' = toolLog
         /\ table' = table

\* C32: if the store fetch fails, or the store delete fails while a listed
\* approver resolves an unexpired request, HandleReaction returns an error
\* with no request and no decision, and the processor does not call the tool
\* for that reaction.
C32_StoreFailuresSurface == [](C32_ErrorReturned) /\ [][C32_FailingStep]_vars

\* an approver's approval whose delete failed: the error is returned, the
\* record is still there and nothing was executed
C32_Witness ==
  \E j \in Reactions :
    /\ StoreErrorOf(j)
    /\ inv[j].fetched # <<>>
    /\ isApprove(inv[j].reaction)
    /\ contains(inv[j].fetched[1].Approvers, inv[j].user)
    /\ inv[j].err = "failed to delete approval"
    /\ inv[j].ts \in DOMAIN table
    /\ toolLog = <<>>

\* a step leaves every record that stays in the table as it is, and a record
\* appears only under a timestamp no prompt had before
C33_RecordFrame ==
  /\ \A k \in DOMAIN table \cap DOMAIN table' : table'[k] = table[k]
  /\ \A k \in DOMAIN table' \ DOMAIN table :
       /\ k = nextTs
       /\ k \notin Created
       /\ nextTs' > nextTs

\* every tool call made for an approved request carries the tool name and the
\* arguments the requesting invocation gave to RequestApproval
C33_CallAsStored ==
  \A k \in DOMAIN toolLog :
    toolLog[k].req # 0 =>
      /\ toolLog[k].req \in Created
      /\ toolLog[k].name = inv[CreatorOf(toolLog[k].req)].call[1].name
      /\ toolLog[k].arguments = inv[CreatorOf(toolLog[k].req)].call[1].args

\* C33: a stored approval record is never modified between its creation and
\* its deletion, and when a request is approved the tool call made by the
\* processor uses exactly the action name and argument payload stored by
\* RequestApproval.
C33_NoUpdateInPlace == [](C33_CallAsStored) /\ [][C33_RecordFrame]_vars

\* a refund above the threshold, approved after the clock had moved, executed
\* with the arguments of the request
C33_Witness ==
  \E k \in DOMAIN toolLog :
    /\ toolLog[k].req \in Created
    /\ toolLog[k].req \notin DOMAIN table
    /\ toolLog[k].name = "refund_payment"
    /\ toolLog[k].arguments = [shape |-> "number", num |-> DefaultRefundMax + 1]
    /\ inv[toolLog[k].by].returnedAt > inv[CreatorOf(toolLog[k].req)].requestedAt

\* the category Check resolves the action of the call to
chkCategory ==
  IF ActionTypeOf(chk[1].action) = "" THEN "read"
  ELSE ActionTypeOf(chk[1].action)

\* the channel of the call passes the channel restriction
chkChannelAllowed ==
  perms.Channels = <<>> \/ chk[1].channelID \in Range(perms.Channels)

\* C34: when the category resolved for an action has no configured policy,
\* Check returns Allowed without approval for every user in an allowed
\* channel, without any admin check; this includes refund and cancel actions
\* when the supplied policy JSON has no entry for them.
C34_MissingPolicyAllows ==
  (CheckMade /\ chkChannelAllowed /\ chkCategory \notin DOMAIN perms.Actions)
    => /\ chk[1].result.Allowed
       /\ ~chk[1].result.NeedsApproval
       /\ chk[1].result.Reason = ""
       /\ chk[1].result.Approvers = <<>>
       /\ chk[1].queried = <<>>

\* a refund by a user who is no admin, in the one allowed channel, under a
\* supplied policy that has policies for the other categories only
C34_Witness ==
  /\ CheckMade
  /\ env = EnvPolicy(perms)
  /\ perms.Channels = <<"C1">>
  /\ chk[1].channelID = "C1"
  /\ perms.Users = <<"U1">>
  /\ chk[1].userID = "U2"
  /\ \A g \in GroupIDs : chk[1].lookup[g].members = {}
  /\ chk[1].action = "refund_payment"
  /\ DOMAIN perms.Actions = {"cancel", "create", "read"}
  /\ chk[1].amount = MaxThreshold + 1
  /\ chk[1].result.Allowed

\* group g, as the directory answered, lists the user of the call
chkLists(g) == ~chk[1].lookup[g].err /\ chk[1].userID \in chk[1].lookup[g].members

\* Check returns before the admin check, or the admin check ends at the user
\* list
chkNoGroupCheck ==
  \/ ~chkChannelAllowed
  \/ chkCategory \notin DOMAIN perms.Actions
  \/ perms.Actions[chkCategory].Level = "any"
  \/ chk[1].userID \in Range(perms.Users)

\* C35: Check makes no group membership query when the channel is denied or
\* the policy level is any, and none when the user is in the direct admin user
\* list; otherwise it queries the configured groups in order and stops at the
\* first group that contains the user.
C35_GroupQueries ==
  CheckMade =>
    LET q == chk[1].queried IN
    IF chkNoGroupCheck THEN q = <<>>
    ELSE /\ Len(q) <= Len(perms.Groups)
         /\ q = SubSeq(perms.Groups, 1, Len(q))
         /\ \A i \in 1..(Len(q) - 1) : ~chkLists(q[i])
         /\ Len(q) < Len(perms.Groups) => chkLists(q[Len(q)])

\* two groups are configured and the first lists the user: one query
C35_Witness ==
  /\ CheckMade
  /\ ~chkNoGroupCheck
  /\ perms.Groups = <<"G1", "G2">>
  /\ chkLists("G1")
  /\ chk[1].queried = <<"G1">>
  /\ chk[1].result.Allowed

\* the user who requested request id
RequesterOf(id) == inv[CreatorOf(id)].user

\* C36: the user whose reaction resolves an approval request is never the user
\* who requested it: for every request created through handleMessage, the
\* requester is not in the stored approver list, so no reaction of the
\* requester yields a decision.
C36_RequesterNeverResolves ==
  \A id \in Created :
    /\ RequesterOf(id) \notin Range(inv[CreatorOf(id)].perm[1].Approvers)
    /\ id \in DOMAIN table =>
         /\ get(table, id)[1].RequestedBy = RequesterOf(id)
         /\ RequesterOf(id) \notin Range(get(table, id)[1].Approvers)
    /\ \A j \in Reactions :
         /\ (inv[j].ts = id /\ inv[j].user = RequesterOf(id)) =>
              /\ inv[j].decision = ""
              /\ inv[j].req = <<>>
              /\ CallsBy(j) = {}
         /\ (inv[j].ts = id /\ inv[j].decision # "") =>
              inv[j].user # RequesterOf(id)

\* an admin approves the own request in time and nothing happens; the other
\* admin then approves it
C36_Witness ==
  \E id \in Created : \E j, k \in Reactions :
    /\ j < k
    /\ RequesterOf(id) \in Range(perms.Users)
    /\ inv[j].ts = id /\ inv[j].user = RequesterOf(id)
    /\ isApprove(inv[j].reaction)
    /\ inv[j].fetched # <<>>
    /\ inv[j].outcome = "not_approver"
    /\ inv[k].ts = id /\ inv[k].decision = "approved"

\* C37: every approval request persisted through handleMessage has at least
\* one eligible approver, so that some reaction handled before its expiry can
\* resolve it; this must hold also when the requester is the only configured
\* admin user or is admin only through a group.
C37_SomeApprover ==
  \A id \in DOMAIN table : get(table, id)[1].Approvers # <<>>

\* message invocation m settled on a tool call whose arguments carry no
\* amount in a recognised shape
NoRecognisedAmount(m) ==
  /\ inv[m].kind = "message"
  /\ inv[m].call # <<>>
  /\ inv[m].call[1].args.shape \notin {"number", "object"}

\* the user of message invocation m is an admin: listed, or a member of a
\* configured group as the directory answered during the invocation
AdminAt(m) ==
  \/ inv[m].user \in Range(perms.Users)
  \/ /\ inv[m].lookup # <<>>
     /\ \E i \in DOMAIN perms.Groups :
          /\ ~inv[m].lookup[1][perms.Groups[i]].err
          /\ inv[m].user \in inv[m].lookup[1][perms.Groups[i]].members

\* the policy of the tool call of m asks for approval above a positive
\* threshold
ThresholdPolicyAt(m) ==
  LET cat == ActionTypeOf(inv[m].call[1].name) IN
  /\ cat \in DOMAIN perms.Actions
  /\ perms.Actions[cat].Approve
  /\ perms.Actions[cat].MaxAmount > 0

\* C38: a tool call whose arguments carry no amount in a recognised shape
\* (neither a number under "amount" nor a number under "amount.value") is
\* evaluated with amount 0, so for an admin and a policy with
\* requiresApproval = true and maxAmount > 0 it is Allowed and executed
\* without approval.
C38_NoAmountIsZero ==
  \A m \in Messages :
    NoRecognisedAmount(m) =>
      /\ \A lk \in SpecLookups :
           (inv[m].lookup = <<lk>> \/ inv[m].lookup = <<>>) =>
             inv[m].perm[1] = Check(perms, lk, inv[m].user, inv[m].channel,
                                    inv[m].call[1].name, 0)
      /\ (AdminAt(m) /\ ThresholdPolicyAt(m)
            /\ (perms.Channels = <<>> \/ inv[m].channel \in Range(perms.Channels)))
           => /\ inv[m].perm[1].Allowed
              /\ ~inv[m].perm[1].NeedsApproval
              /\ inv[m].outcome = "executed"
              /\ inv[m].ts = 0
              /\ inv[m].thread = ""
              /\ \E k \in CallsBy(m) :
                   /\ toolLog[k].name = inv[m].call[1].name
                   /\ toolLog[k].arguments = inv[m].call[1].args

\* an admin's refund whose amount, above the threshold, is given as a string:
\* executed at once
C38_Witness ==
  \E m \in Messages :
    /\ NoRecognisedAmount(m)
    /\ inv[m].call[1] = [name |-> "refund_payment", parses |-> TRUE,
                         args |-> [shape |-> "string",
                                   num |-> DefaultRefundMax + 1]]
    /\ inv[m].user = "U1"
    /\ inv[m].outcome = "executed"
    /\ Len(toolLog) = 1

\* a step in which the CallTool call of goroutine c returns a result
ReturnsResult(c) ==
  /\ callers[c].pc = "sent"
  /\ callers'[c].pc = "idle"
  /\ callers'[c].ret = "ok"

\* the result a call returns is that of the response to its own request
C39_ResultOfOwnRequest ==
  \A c \in Callers :
    ReturnsResult(c) => out # <<>> /\ Head(out).resp.ID = callers[c].id

\* C39: CallTool never returns the result of a response whose id differs from
\* the id of the request it wrote: after any sequence of calls, including
\* calls that failed after writing their request, the response read by the
\* n-th call is the response to the n-th request.
C39_PositionalCorrelation == [][C39_ResultOfOwnRequest]_vars

\* the reaction name of invocation r is approve-like or reject-like
Relevant(r) == normalize(r.reaction) \in ApproveNames \cup RejectNames

\* what the call of a starting reaction invocation finds depends on the name
\* and on the table under the target message ID, whatever the channel
C40_FetchStep ==
  ReactionStarted =>
    /\ ~Relevant(StartedInv) => StartedInv.outcome = "irrelevant"
    /\ (Relevant(StartedInv) /\ StartedInv.ts \notin DOMAIN table)
         => StartedInv.outcome = "not_found"
    /\ (Relevant(StartedInv) /\ StartedInv.ts \in DOMAIN table)
         => /\ StartedInv.pc = "fetched"
            /\ StartedInv.fetched = get(table, StartedInv.ts)
    /\ table' = table

\* what a call that fetched a record returns is given by the time, the user,
\* the name and the record
C40_Outcome ==
  \A j \in Reactions :
    ReachedExpiryTest(j) =>
      LET req == inv[j].fetched[1] IN
      IF inv[j].returnedAt > req.ExpiresAt
        THEN inv[j].err = "approval request has expired" /\ inv[j].decision = ""
      ELSE IF inv[j].user \notin Range(req.Approvers) THEN NoOp(j)
      ELSE /\ inv[j].req = <<req>>
           /\ inv[j].err = ""
           /\ inv[j].decision =
                IF normalize(inv[j].reaction) \in ApproveNames THEN "approved"
                ELSE "rejected"

\* C40: the outcome of HandleReaction depends only on the reaction name, the
\* acting user, the target message ID, the current time and the store: a
\* reaction whose channel differs from the channel stored in the request
\* resolves the request exactly as one from the stored channel.
C40_ChannelIgnored == [](C40_Outcome) /\ [][C40_FetchStep]_vars

\* an approver's approval that came from another channel than the one of the
\* request, and the tool call made for it
C40_Witness ==
  \E j \in Reactions :
    /\ ReachedExpiryTest(j)
    /\ inv[j].channel \in ChannelIDs
    /\ inv[j].channel # inv[j].fetched[1].Channel
    /\ inv[j].decision = "approved"
    /\ CallsBy(j) # {}

====
